---- MODULE Spec2Model ----
(***************************************************************************)
(* A model of the bill-extraction core of backend/app.py:                  *)
(*   - ThaiElectricityBillOCR.extract_usage_amount, the four-strategy      *)
(*     cascade that finds the usage value in recognised text;              *)
(*   - ThaiElectricityBillOCR.clean_and_correct_text, the text corrector;  *)
(*   - ThaiElectricityBillOCR.process_bill and its callers                 *)
(*     process_image_ocr and process_pdf_bill, the PDF pipeline and the    *)
(*     reading-to-usage period offset;                                     *)
(*   - ThaiElectricityBillOCR.detect_bill_format, the format classifier;   *)
(*   - ThaiElectricityBillOCR.extract_text_with_confidence, the average    *)
(*     confidence;                                                         *)
(*   - two process_bill runs with their steps interleaved;                 *)
(*   - ThaiElectricityBillOCR.extract_bill_period, preprocess_image and    *)
(*     fallback_number_extraction;                                         *)
(*   - generate_record_id and the edit-request routes                      *)
(*     create_edit_request, approve_edit_request and reject_edit_request,  *)
(*     served by concurrent handler threads.                               *)
(*                                                                         *)
(* Text is modelled as a sequence of tokens.  The string the code sees is  *)
(* the tokens joined by one space, a newline token standing for "\n" with  *)
(* no space around it.  Character offsets and lengths are computed from    *)
(* the token lengths, so that the offset arithmetic of the code (column    *)
(* alignment, context windows, the 10-character line filter) is kept.      *)
(* Numeric tokens are unsigned integers without leading zeros or decimals. *)
(* extract_bill_period and fallback_number_extraction work on characters, *)
(* their text being a sequence of characters and whole words.             *)
(***************************************************************************)
EXTENDS Integers, Sequences, FiniteSets, TLC

VARIABLES
    u_text,     \* extract_usage_amount: the text argument (token sequence)
    u_fmt,      \* extract_usage_amount: the bill_format argument
    u_pc,       \* position in extract_usage_amount: "s1".."s4", "done", "idle"
    u_ret,      \* the value extract_usage_amount returns (None before)
    u_tried,    \* the strategies consulted so far, in order
    u_by,       \* the strategy that produced the return value, 0 if none
    c_raw,      \* clean_and_correct_text: the raw text (character sequence)
    c_once,     \* its corrected text
    c_twice,    \* the corrected text corrected again
    c_pc,       \* "raw", "once", "twice", "idle"
    b_pc,       \* process_bill / process_image_ocr: control position
    b_size,     \* <<width, height>> of the rendered first page
    b_format,   \* bill_format
    b_results,  \* results of the extraction script: the text of each crop
    b_data,     \* extracted_data
    b_result,   \* the dict process_bill returns
    b_exc,      \* the exception raised inside process_bill, "none" if none
    b_tmp,      \* whether the temporary PDF file exists
    b_env,      \* BILL_DATE_OFFSET as read, None when unset
    b_now,      \* datetime.now() as read by process_image_ocr
    b_record,   \* the emission record inserted
    b_confs,    \* the token confidences of the text engine for the bill
    b_path,     \* the entry point: "image" (process_image_ocr) or "pdf"
    d_text,     \* detect_bill_format: the text argument (character sequence)
    d_ret,      \* its return value
    d_pc,       \* "call", "done", "idle"
    k_paddle,   \* extract_text_with_confidence: the use_paddle argument
    k_conf,     \* the token confidences of the engine, in percent
    k_avg,      \* avg_confidence as the fraction <<numerator, denominator>>
    k_pc,       \* "call", "done", "raised", "idle"
    p_config,   \* two concurrent process_bill runs: the tables of the object
    p_bill,     \* the bill of each run: page size and the text of its crops
    p_pc,       \* the control position of each run
    p_name,     \* tmp_pdf_path of each run
    p_fs,       \* the temporary directory: file name -> bill written to it
    p_format,   \* bill_format of each run
    p_results,  \* results of each run
    p_result,   \* the dict each run returns
    p_exc,      \* the exception raised inside each run, "none" if none
    e_text,     \* extract_bill_period: the text argument (character sequence)
    e_fmt,      \* extract_bill_period: the bill_format argument
    e_ret,      \* its return value: <<>> for None, <<month, year>> for the dict
    e_pc,       \* "call", "done", "idle"
    i_size,     \* preprocess_image: <<width, height>> of the decoded image
    i_region,   \* the region kept: [top, bottom, left, right], rows and columns
    i_pc,       \* "call", "done", "idle"
    g_seq,      \* generate_record_id: seq of the counter document, 0 if absent
    g_pc,       \* the control position of each caller
    g_counter,  \* the counter document each caller got back
    g_ids,      \* the record IDs returned so far, in order of return
    r_records,  \* edit requests: the emission records, record_id -> state
    r_requests, \* the edit_requests collection, in insertion order
    r_pc,       \* the control position of each handler thread
    r_call,     \* the call each thread is serving
    r_local,    \* the local variables of each thread
    r_resp,     \* the responses returned so far, in order of return
    f_text,     \* fallback_number_extraction: the text argument
    f_ret,      \* the dict it returns
    f_pc        \* "call", "done", "idle"

u_vars == <<u_text, u_fmt, u_pc, u_ret, u_tried, u_by>>

c_vars == <<c_raw, c_once, c_twice, c_pc>>

b_vars == <<b_pc, b_size, b_format, b_results, b_data, b_result, b_exc,
            b_tmp, b_env, b_now, b_record, b_confs, b_path>>

d_vars == <<d_text, d_ret, d_pc>>

k_vars == <<k_paddle, k_conf, k_avg, k_pc>>

p_vars == <<p_config, p_bill, p_pc, p_name, p_fs, p_format, p_results,
            p_result, p_exc>>

e_vars == <<e_text, e_fmt, e_ret, e_pc>>

i_vars == <<i_size, i_region, i_pc>>

g_vars == <<g_seq, g_pc, g_counter, g_ids>>

r_vars == <<r_records, r_requests, r_pc, r_call, r_local, r_resp>>

f_vars == <<f_text, f_ret, f_pc>>

\* the variables of the parts modelled in the second half of the module
x_vars == <<e_vars, i_vars, g_vars, r_vars, f_vars>>

vars == <<u_vars, c_vars, b_vars, d_vars, k_vars, p_vars, x_vars>>

\* Python's None as a return value of the extraction functions (values are
\* non-negative, so -1 is free).
None == -1

-----------------------------------------------------------------------------
(* Tokens and the layout of the text string                                *)

Num(v) == [k |-> "num", v |-> v]
Kw(name) == [k |-> name, v |-> 0]

IsNum(t) == t.k = "num"

\* len(num_str) for a numeric token; 6 stands for "six digits or more".
Digits(v) ==
    IF v < 10 THEN 1
    ELSE IF v < 100 THEN 2
    ELSE IF v < 1000 THEN 3
    ELSE IF v < 10000 THEN 4
    ELSE IF v < 100000 THEN 5
    ELSE 6

\* len() of each token as a Python string (code points).
\*   date_mea       'วันที่จดเลขอ่าน'   usage_mea      'จำนวนหน่วย'
\*   alt_usage_mea  'จํานวนหน่วย'      date_pea       'วันที่อ่านหน่วย'
\*   usage_pea      'จำนวนที่ใช้'       alt_usage_pea  'จํานวนที่ใช้'
\*   energy         'พลังงานไฟฟ้า'     unit           '(หน่วย)'
\*   consumption    'Comsumption Unit' tel            'โทร'
\*   soi            'ซอย' (an address keyword)       slash  '/'
\*   NL             "\n"
TokLen(t) ==
    CASE t.k = "num" -> Digits(t.v)
      [] t.k = "date_mea" -> 15
      [] t.k = "usage_mea" -> 10
      [] t.k = "alt_usage_mea" -> 11
      [] t.k = "date_pea" -> 15
      [] t.k = "usage_pea" -> 11
      [] t.k = "alt_usage_pea" -> 12
      [] t.k = "kWh" -> 3
      [] t.k = "energy" -> 12
      [] t.k = "unit" -> 7
      [] t.k = "consumption" -> 16
      [] t.k = "tel" -> 3
      [] t.k = "soi" -> 3
      [] t.k = "slash" -> 1
      [] t.k = "NL" -> 1

Min(S) == CHOOSE x \in S : \A y \in S : x <= y
Min2(a, b) == IF a <= b THEN a ELSE b
Max2(a, b) == IF a >= b THEN a ELSE b
Abs(x) == IF x < 0 THEN -x ELSE x

\* One space between two tokens, none next to a newline.
Gap(text, i) == IF text[i - 1].k = "NL" \/ text[i].k = "NL" THEN 0 ELSE 1

\* match.start() / str.index(): the character offset of token i in the text.
RECURSIVE Start(_, _)
Start(text, i) ==
    IF i = 1 THEN 0
    ELSE Start(text, i - 1) + TokLen(text[i - 1]) + Gap(text, i)

\* match.end(): the offset just after token i.
End(text, i) == Start(text, i) + TokLen(text[i])

\* len(text)
TextLen(text) == IF text = <<>> THEN 0 ELSE End(text, Len(text))

\* The elements of a set of indices in increasing order.
RECURSIVE SortedIdx(_)
SortedIdx(S) ==
    IF S = {} THEN <<>>
    ELSE LET m == Min(S) IN <<m>> \o SortedIdx(S \ {m})

\* text.split('\n')
RECURSIVE SplitLines(_)
SplitLines(text) ==
    LET nl == {i \in 1..Len(text) : text[i].k = "NL"} IN
    IF nl = {} THEN <<text>>
    ELSE LET i == Min(nl) IN
         <<SubSeq(text, 1, i - 1)>> \o SplitLines(SubSeq(text, i + 1, Len(text)))

\* kw in line
Contains(line, kw) == \E i \in 1..Len(line) : line[i].k = kw

\* line.index(kw)
Index(line, kw) == Start(line, Min({i \in 1..Len(line) : line[i].k = kw}))

\* (1900 <= value <= 2100) or (2400 <= value <= 2700)
IsYear(v) == (1900 <= v /\ v <= 2100) \/ (2400 <= v /\ v <= 2700)

-----------------------------------------------------------------------------
(* extract_usage_amount, STRATEGY 1: table header row and usage column     *)

date_header(fmt) == IF fmt = "mea" THEN "date_mea" ELSE "date_pea"
usage_header(fmt) == IF fmt = "mea" THEN "usage_mea" ELSE "usage_pea"
alt_usage_header(fmt) == IF fmt = "mea" THEN "alt_usage_mea" ELSE "alt_usage_pea"

\* date_header in line (date_header.replace('ำ','า') is the same string:
\* neither date header holds a sara am)
has_date(line, fmt) == Contains(line, date_header(fmt))

has_usage(line, fmt) ==
    \/ Contains(line, usage_header(fmt))
    \/ Contains(line, alt_usage_header(fmt))
    \/ Contains(line, "kWh")

\* the offset of the first of usage_header, alt_usage_header, 'kWh' that the
\* line holds, else -1
usage_col_start(line, fmt) ==
    IF Contains(line, usage_header(fmt)) THEN Index(line, usage_header(fmt))
    ELSE IF Contains(line, alt_usage_header(fmt))
         THEN Index(line, alt_usage_header(fmt))
    ELSE IF Contains(line, "kWh") THEN Index(line, "kWh")
    ELSE -1

\* re.finditer(r'\b(\d{2,5})\b', data_line): (num_val, num_pos, len(num_str))
numbers_with_pos(line) ==
    LET idx == SortedIdx({i \in 1..Len(line) :
                            IsNum(line[i]) /\ Digits(line[i].v) \in 2..5})
    IN [n \in 1..Len(idx) |->
          [val |-> line[idx[n]].v,
           pos |-> Start(line, idx[n]),
           len |-> Digits(line[idx[n]].v)]]

\* numbers_with_pos.sort(key=lambda x: abs(x[1] - usage_col_start)); the sort
\* is stable, so tokens at equal distance keep their text order.
RECURSIVE InsertByDistance(_, _, _)
InsertByDistance(x, s, col) ==
    IF s = <<>> THEN <<x>>
    ELSE IF Abs(x.pos - col) <= Abs(Head(s).pos - col) THEN <<x>> \o s
    ELSE <<Head(s)>> \o InsertByDistance(x, Tail(s), col)

\* SortByDistance without the sort: the candidates stay in text order.
SortByDistance_TextOrder(s, col) == s

RECURSIVE SortByDistance(_, _)
SortByDistance(s, col) ==
    IF s = <<>> THEN <<>>
    ELSE InsertByDistance(Head(s), SortByDistance(Tail(s), col), col)

\* the loop over the sorted candidates when the column offset is known
AcceptedInColumn(n) ==
    /\ 50 <= n.val /\ n.val <= 5000
    /\ ~IsYear(n.val)
    /\ ~(n.val >= 10000 /\ n.len = 5)

\* the loop in text order when no column offset is known
AcceptedNoColumn(n) ==
    /\ ~(n.val <= 31)
    /\ ~IsYear(n.val)
    /\ ~(n.val >= 10000 /\ n.len = 5)
    /\ 50 <= n.val /\ n.val <= 5000

RECURSIVE FirstInColumn(_)
FirstInColumn(s) ==
    IF s = <<>> THEN None
    ELSE IF AcceptedInColumn(Head(s)) THEN Head(s).val
    ELSE FirstInColumn(Tail(s))

RECURSIVE FirstNoColumn(_)
FirstNoColumn(s) ==
    IF s = <<>> THEN None
    ELSE IF AcceptedNoColumn(Head(s)) THEN Head(s).val
    ELSE FirstNoColumn(Tail(s))

\* One data line: skipped when shorter than 10 characters, else the first
\* accepted candidate (None when the line has none).
DataLineValue(data_line, col) ==
    LET nums == numbers_with_pos(data_line) IN
    IF TextLen(data_line) < 10 THEN None
    ELSE IF col > 0 /\ nums # <<>> THEN FirstInColumn(SortByDistance(nums, col))
    ELSE FirstNoColumn(nums)

\* for data_line_idx in range(line_idx + 1, min(line_idx + 5, len(lines)))
RECURSIVE ScanDataLines(_, _, _, _)
ScanDataLines(lines, d, last, col) ==
    IF d > last THEN None
    ELSE LET r == DataLineValue(lines[d], col) IN
         IF r # None THEN r ELSE ScanDataLines(lines, d + 1, last, col)

\* for line_idx, line in enumerate(lines)
RECURSIVE ScanHeaders(_, _, _)
ScanHeaders(lines, li, fmt) ==
    IF li > Len(lines) THEN None
    ELSE IF has_date(lines[li], fmt) /\ has_usage(lines[li], fmt)
    THEN LET r == ScanDataLines(lines, li + 1, Min2(li + 4, Len(lines)),
                                usage_col_start(lines[li], fmt))
         IN IF r # None THEN r ELSE ScanHeaders(lines, li + 1, fmt)
    ELSE ScanHeaders(lines, li + 1, fmt)

Strategy1(text, fmt) == ScanHeaders(SplitLines(text), 1, fmt)

-----------------------------------------------------------------------------
(* extract_usage_amount, STRATEGY 2: keyword-anchored patterns             *)

\* The first numeric token after token i, 0 when there is none.  Every token
\* between i and it is free of digits, which is what [^\d] requires.
NextNum(text, i) ==
    LET later == {j \in (i + 1)..Len(text) : IsNum(text[j])} IN
    IF later = {} THEN 0 ELSE Min(later)

\* abs(usage - expected) <= max(5, expected * 0.15), in hundredths
WithinTolerance(usage, expected) ==
    100 * Abs(usage - expected) <= Max2(500, 15 * expected)

\* re.search(kw + r'[^\d]{0,50}(\d{1,5}(?:\.\d{1,2})?)\b', text): the capture of
\* the leftmost occurrence of kw that is followed, after at most 50
\* characters without a digit, by a number of at most 5 digits; None when no
\* occurrence matches.
RECURSIVE HeaderMatchFrom(_, _, _)
HeaderMatchFrom(text, kw, i) ==
    IF i > Len(text) THEN None
    ELSE LET j == NextNum(text, i) IN
         IF /\ text[i].k = kw
            /\ j # 0
            /\ Start(text, j) - End(text, i) <= 50
            /\ Digits(text[j].v) <= 5
         THEN text[j].v
         ELSE HeaderMatchFrom(text, kw, i + 1)

HeaderMatch(text, kw) == HeaderMatchFrom(text, kw, 1)

\* the else branch of the pattern loop: value = float(match.group(1)),
\* returned if 10 <= value <= 5000
HeaderCandidate(text, kw) ==
    LET value == HeaderMatch(text, kw) IN
    IF value # None /\ 10 <= value /\ value <= 5000 THEN value ELSE None

\* the token after j, newlines skipped (\s*), 0 when there is none
RECURSIVE AfterSpace(_, _)
AfterSpace(text, j) ==
    IF j + 1 > Len(text) THEN 0
    ELSE IF text[j + 1].k = "NL" THEN AfterSpace(text, j + 1)
    ELSE j + 1

\* re.search of the first pattern, 'พลังงานไฟฟ้า' number number number '(หน่วย)':
\* <<recent, previous, usage>> of the leftmost match, <<>> when none.
RECURSIVE EnergyMatchFrom(_, _)
EnergyMatchFrom(text, i) ==
    IF i > Len(text) THEN <<>>
    ELSE LET j1 == NextNum(text, i)
             j2 == IF j1 = 0 THEN 0 ELSE NextNum(text, j1)
             j3 == IF j2 = 0 THEN 0 ELSE NextNum(text, j2)
             u  == IF j3 = 0 THEN 0 ELSE AfterSpace(text, j3)
         IN IF /\ text[i].k = "energy"
               /\ j3 # 0
               /\ Digits(text[j1].v) <= 5
               /\ Digits(text[j2].v) <= 5
               /\ Digits(text[j3].v) <= 5
               /\ u # 0
               /\ text[u].k = "unit"
            THEN <<text[j1].v, text[j2].v, text[j3].v>>
            ELSE EnergyMatchFrom(text, i + 1)

\* the first branch of the pattern loop: the third number, returned if it
\* matches the difference of the two readings
EnergyCandidate(text) ==
    LET m == EnergyMatchFrom(text, 1) IN
    IF m # <<>> /\ WithinTolerance(m[3], Abs(m[1] - m[2])) THEN m[3] ELSE None

\* patterns, in order, each with what the loop body returns for it
patterns(text, fmt) ==
    << EnergyCandidate(text),
       HeaderCandidate(text, usage_header(fmt)),
       HeaderCandidate(text, alt_usage_header(fmt)),
       HeaderCandidate(text, "usage_pea"),
       HeaderCandidate(text, "consumption") >>

\* the first element of s that is not None
RECURSIVE FirstCandidate(_)
FirstCandidate(s) ==
    IF s = <<>> THEN None
    ELSE IF Head(s) # None THEN Head(s)
    ELSE FirstCandidate(Tail(s))

Strategy2(text, fmt) == FirstCandidate(patterns(text, fmt))

-----------------------------------------------------------------------------
(* extract_usage_amount, STRATEGY 3: previous reading, reading, usage      *)

\* kw in text[max(0, start - before):min(len(text), end + after)] for the
\* match of token i
InContext(text, i, kw, before, after) ==
    \E k \in 1..Len(text) :
        /\ text[k].k = kw
        /\ Start(text, k) >= Max2(0, Start(text, i) - before)
        /\ End(text, k) <= Min2(TextLen(text), End(text, i) + after)

\* re.finditer(r'\b(\d{2,5}(?:\.\d{1,2})?)\b', text) without the numbers that
\* have 'โทร' within 30 characters.  (The '0-' prefix test cannot hold here:
\* a numeric token follows a space, a newline or the start of the text.)
all_numbers(text) ==
    LET idx == SortedIdx({i \in 1..Len(text) :
                            /\ IsNum(text[i])
                            /\ Digits(text[i].v) \in 2..5
                            /\ ~InContext(text, i, "tel", 30, 30)})
    IN [n \in 1..Len(idx) |-> text[idx[n]].v]

\* num3 < num1 * 0.5 is 2 * num3 < num1 on integers
is_valid_mea_pattern(num1, num2, num3) ==
    /\ num1 >= 1000 /\ num2 >= 1000
    /\ 50 <= num3 /\ num3 <= 5000
    /\ 2 * num3 < num1 /\ 2 * num3 < num2

is_valid_pea_pattern(num1, num2, num3) ==
    /\ 10 <= num1 /\ num1 <= 1000
    /\ 10 <= num2 /\ num2 <= 1000
    /\ 10 <= num3 /\ num3 <= 5000
    /\ Abs(num1 - num2) >= 10

\* TripleAccepted without the two shape tests: any triple within tolerance.
TripleAccepted_AnyShape(num1, num2, num3) ==
    WithinTolerance(num3, Abs(num1 - num2))

\* the body of the loop over triples: does the triple at i return num3
TripleAccepted(num1, num2, num3) ==
    /\ is_valid_mea_pattern(num1, num2, num3)
         \/ is_valid_pea_pattern(num1, num2, num3)
    /\ WithinTolerance(num3, Abs(num1 - num2))

\* for i in range(len(all_numbers) - 2)
RECURSIVE ScanTriples(_, _)
ScanTriples(nums, i) ==
    IF i + 2 > Len(nums) THEN None
    ELSE IF TripleAccepted(nums[i], nums[i + 1], nums[i + 2]) THEN nums[i + 2]
    ELSE ScanTriples(nums, i + 1)

Strategy3(text) == ScanTriples(all_numbers(text), 1)

-----------------------------------------------------------------------------
(* extract_usage_amount, STRATEGY 4: last resort                           *)

\* LastResortAccepted without the address filters: the value tests only.
LastResortAccepted_ValueOnly(text, i) ==
    LET value == text[i].v IN
    /\ ~(value >= 1000 /\ Digits(value) >= 4)
    /\ ~IsYear(value)
    /\ ~(value <= 31)
    /\ 50 <= value /\ value <= 5000

\* One iteration of the loop over re.finditer(r'\b(\d{2,5})\b', text): is the
\* numeric token i returned.
LastResortAccepted(text, i) ==
    LET value == text[i].v IN
    /\ ~InContext(text, i, "soi", 10, 10)
    /\ ~InContext(text, i, "slash", 2, 2)
    /\ ~(value >= 1000 /\ Digits(value) >= 4)
    /\ ~IsYear(value)
    /\ ~(value <= 31)
    /\ 50 <= value /\ value <= 5000

RECURSIVE ScanLastResort(_, _)
ScanLastResort(text, i) ==
    IF i > Len(text) THEN None
    ELSE IF /\ IsNum(text[i])
            /\ Digits(text[i].v) \in 2..5
            /\ LastResortAccepted(text, i)
         THEN text[i].v
    ELSE ScanLastResort(text, i + 1)

Strategy4(text) == ScanLastResort(text, 1)

-----------------------------------------------------------------------------
(* clean_and_correct_text.  A text is a sequence of characters; a Thai     *)
(* character is written by its Unicode name, a Latin letter, digit or      *)
(* blank by itself.                                                        *)

\* \s
IsSpace(c) == c \in {" ", "\n"}

\* [฀-๿]
IsThai(c) == c \notin {" ", "\n", "O", "l", "I", "S", "o", "0", "1", "5", "x"}

\* self.text_corrections, in the order of the dict:
\*   จํานวน -> จำนวน, ประจา -> ประจำ, เดอน -> เดือน, เตือน -> เดือน, หนวย -> หน่วย,
\*   รวม -> รวม, เงน -> เงิน, ชาระ -> ชำระ, ทั้งสน -> ทั้งสิ้น,
\*   O -> 0, l -> 1, I -> 1, S -> 5, o -> 0,
\*   าํ -> ำ, and four vowel signs mapped to themselves
text_corrections ==
    <<
       <<<<"cho_chan", "nikhahit", "sara_aa", "no_nu", "wo_waen", "no_nu">>, <<"cho_chan", "sara_am", "no_nu", "wo_waen", "no_nu">>>>,
       <<<<"po_pla", "ro_ruea", "sara_a", "cho_chan", "sara_aa">>, <<"po_pla", "ro_ruea", "sara_a", "cho_chan", "sara_am">>>>,
       <<<<"sara_e", "do_dek", "o_ang", "no_nu">>, <<"sara_e", "do_dek", "sara_uee", "o_ang", "no_nu">>>>,
       <<<<"sara_e", "to_tao", "sara_uee", "o_ang", "no_nu">>, <<"sara_e", "do_dek", "sara_uee", "o_ang", "no_nu">>>>,
       <<<<"ho_hip", "no_nu", "wo_waen", "yo_yak">>, <<"ho_hip", "no_nu", "mai_ek", "wo_waen", "yo_yak">>>>,
       <<<<"ro_ruea", "wo_waen", "mo_ma">>, <<"ro_ruea", "wo_waen", "mo_ma">>>>,
       <<<<"sara_e", "ngo_ngu", "no_nu">>, <<"sara_e", "ngo_ngu", "sara_i", "no_nu">>>>,
       <<<<"cho_chang", "sara_aa", "ro_ruea", "sara_a">>, <<"cho_chang", "sara_am", "ro_ruea", "sara_a">>>>,
       <<<<"tho_thahan", "mai_han", "mai_tho", "ngo_ngu", "so_suea", "no_nu">>, <<"tho_thahan", "mai_han", "mai_tho", "ngo_ngu", "so_suea", "sara_i", "mai_tho", "no_nu">>>>,
       <<<<"O">>, <<"0">>>>,
       <<<<"l">>, <<"1">>>>,
       <<<<"I">>, <<"1">>>>,
       <<<<"S">>, <<"5">>>>,
       <<<<"o">>, <<"0">>>>,
       <<<<"sara_aa", "nikhahit">>, <<"sara_am">>>>,
       <<<<"sara_i">>, <<"sara_i">>>>,
       <<<<"sara_ii">>, <<"sara_ii">>>>,
       <<<<"sara_u">>, <<"sara_u">>>>,
       <<<<"sara_uu">>, <<"sara_uu">>>>
    >>

\* thai_word_fixes: จำนวน, หน่วย, ประจำเดือน, รวมเงิน, ชำระ; the pattern of
\* each is its characters with \s* between them
thai_word_fixes ==
    <<
       <<"cho_chan", "sara_am", "no_nu", "wo_waen", "no_nu">>,
       <<"ho_hip", "no_nu", "mai_ek", "wo_waen", "yo_yak">>,
       <<"po_pla", "ro_ruea", "sara_a", "cho_chan", "sara_am", "sara_e", "do_dek", "sara_uee", "o_ang", "no_nu">>,
       <<"ro_ruea", "wo_waen", "mo_ma", "sara_e", "ngo_ngu", "sara_i", "no_nu">>,
       <<"cho_chang", "sara_am", "ro_ruea", "sara_a">>
    >>

\* text[i:].startswith(w)
StartsWith(text, i, w) ==
    /\ i + Len(w) - 1 <= Len(text)
    /\ \A k \in 1..Len(w) : text[i + k - 1] = w[k]

\* text.replace(wrong, right): left to right, occurrences do not overlap
RECURSIVE ReplaceFrom(_, _, _, _)
ReplaceFrom(text, wrong, right, i) ==
    IF i > Len(text) THEN <<>>
    ELSE IF StartsWith(text, i, wrong)
         THEN right \o ReplaceFrom(text, wrong, right, i + Len(wrong))
    ELSE <<text[i]>> \o ReplaceFrom(text, wrong, right, i + 1)

\* for wrong, right in self.text_corrections.items(): text = text.replace(..)
RECURSIVE ApplyCorrections(_, _)
ApplyCorrections(text, n) ==
    IF n > Len(text_corrections) THEN text
    ELSE ApplyCorrections(
            ReplaceFrom(text, text_corrections[n][1], text_corrections[n][2], 1),
            n + 1)

\* the nearest index left (right) of i that holds no blank, 0 when none
RECURSIVE RunLeft(_, _)
RunLeft(text, i) ==
    IF i < 1 THEN 0
    ELSE IF IsSpace(text[i]) THEN RunLeft(text, i - 1)
    ELSE i

RECURSIVE RunRight(_, _)
RunRight(text, i) ==
    IF i > Len(text) THEN 0
    ELSE IF IsSpace(text[i]) THEN RunRight(text, i + 1)
    ELSE i

\* the characters of text at the indices in S, in order
Select(text, S) ==
    LET idx == SortedIdx(S) IN [n \in 1..Len(idx) |-> text[idx[n]]]

\* re.sub(r'(?<=[฀-๿])\s+(?=[฀-๿])', '', text): a run of
\* blanks goes when a Thai character stands on each side of it
FixSpacedThai(text) ==
    Select(text, {i \in 1..Len(text) :
        ~(/\ IsSpace(text[i])
          /\ RunLeft(text, i) # 0
          /\ RunRight(text, i) # 0
          /\ IsThai(text[RunLeft(text, i)])
          /\ IsThai(text[RunRight(text, i)]))})

\* re.sub(r'\s+', ' ', text)
CollapseSpaces(text) ==
    LET kept == Select(text, {i \in 1..Len(text) :
                    ~IsSpace(text[i]) \/ i = 1 \/ ~IsSpace(text[i - 1])})
    IN [n \in 1..Len(kept) |-> IF IsSpace(kept[n]) THEN " " ELSE kept[n]]

\* The match of a word fix at position i: the index of the last character
\* matched, 0 when the pattern does not match there.  k is the next character
\* of the word to find; blanks may precede every character but the first.
RECURSIVE MatchSpaced(_, _, _, _)
MatchSpaced(text, word, i, k) ==
    IF k > Len(word) THEN i - 1
    ELSE IF i > Len(text) THEN 0
    ELSE IF text[i] = word[k] THEN MatchSpaced(text, word, i + 1, k + 1)
    ELSE IF k > 1 /\ IsSpace(text[i]) THEN MatchSpaced(text, word, i + 1, k)
    ELSE 0

\* re.sub(pattern, replacement, text)
RECURSIVE SubSpacedFrom(_, _, _)
SubSpacedFrom(text, word, i) ==
    IF i > Len(text) THEN <<>>
    ELSE LET e == MatchSpaced(text, word, i, 1) IN
         IF e # 0 THEN word \o SubSpacedFrom(text, word, e + 1)
         ELSE <<text[i]>> \o SubSpacedFrom(text, word, i + 1)

\* for pattern, replacement in thai_word_fixes.items(): text = re.sub(..)
RECURSIVE ApplyWordFixes(_, _)
ApplyWordFixes(text, n) ==
    IF n > Len(thai_word_fixes) THEN text
    ELSE ApplyWordFixes(SubSpacedFrom(text, thai_word_fixes[n], 1), n + 1)

\* text.strip()
RECURSIVE Strip(_)
Strip(text) ==
    IF text = <<>> THEN <<>>
    ELSE IF IsSpace(Head(text)) THEN Strip(Tail(text))
    ELSE IF IsSpace(text[Len(text)]) THEN Strip(SubSeq(text, 1, Len(text) - 1))
    ELSE text

clean_and_correct_text(raw_text) ==
    Strip(ApplyWordFixes(
            CollapseSpaces(FixSpacedThai(ApplyCorrections(raw_text, 1))), 1))

\* clean_and_correct_text not called
IdleCorrector ==
    /\ c_raw = <<>>
    /\ c_once = <<>>
    /\ c_twice = <<>>
    /\ c_pc = "idle"

\* detect_bill_format not called
IdleDetect ==
    /\ d_text = <<>>
    /\ d_ret = "none"
    /\ d_pc = "idle"

\* extract_text_with_confidence not called
IdleConfidence ==
    /\ k_paddle = FALSE
    /\ k_conf = <<>>
    /\ k_avg = <<0, 1>>
    /\ k_pc = "idle"

\* no concurrent runs
IdleConcurrent ==
    /\ p_config = <<>>
    /\ p_bill = <<>>
    /\ p_pc = <<>>
    /\ p_name = <<>>
    /\ p_fs = <<>>
    /\ p_format = <<>>
    /\ p_results = <<>>
    /\ p_result = <<>>
    /\ p_exc = <<>>

\* process_bill not called
IdleBill ==
    /\ b_pc = "idle"
    /\ b_size = <<0, 0>>
    /\ b_format = "unknown"
    /\ b_results = [usage |-> <<>>, date |-> <<>>]
    /\ b_data = <<>>
    /\ b_result = <<>>
    /\ b_exc = "none"
    /\ b_tmp = FALSE
    /\ b_env = None
    /\ b_now = <<>>
    /\ b_record = <<>>
    /\ b_confs = <<>>
    /\ b_path = "none"

\* extract_bill_period not called
IdlePeriod ==
    /\ e_text = <<>>
    /\ e_fmt = "mea"
    /\ e_ret = <<>>
    /\ e_pc = "idle"

\* preprocess_image not called
IdleCrop ==
    /\ i_size = <<0, 0>>
    /\ i_region = <<>>
    /\ i_pc = "idle"

\* generate_record_id not called
IdleRecordId ==
    /\ g_seq = 0
    /\ g_pc = <<>>
    /\ g_counter = <<>>
    /\ g_ids = <<>>

\* no edit request route called
IdleRequests ==
    /\ r_records = <<>>
    /\ r_requests = <<>>
    /\ r_pc = <<>>
    /\ r_call = <<>>
    /\ r_local = <<>>
    /\ r_resp = <<>>

\* fallback_number_extraction not called
IdleFallback ==
    /\ f_text = <<>>
    /\ f_ret = <<>>
    /\ f_pc = "idle"

\* none of the parts modelled in the second half of the module is running
IdleRest ==
    /\ IdlePeriod
    /\ IdleCrop
    /\ IdleRecordId
    /\ IdleRequests
    /\ IdleFallback

-----------------------------------------------------------------------------
(* extract_usage_amount: the cascade, one step per strategy                *)

\* Outcome without the early return: the candidate is kept but control still
\* falls through to the next strategy.
Outcome_FallThrough(r, n, next) ==
    /\ u_tried' = Append(u_tried, n)
    /\ IF r # None
       THEN u_ret' = r /\ u_by' = n
       ELSE UNCHANGED <<u_ret, u_by>>
    /\ u_pc' = next
    /\ UNCHANGED <<u_text, u_fmt, c_vars, b_vars, d_vars, k_vars, p_vars, x_vars>>

\* What a strategy's outcome r does to the control state: a candidate is
\* returned at once, otherwise control falls through to the next strategy.
Outcome(r, n, next) ==
    /\ u_tried' = Append(u_tried, n)
    /\ IF r # None
       THEN /\ u_ret' = r
            /\ u_by' = n
            /\ u_pc' = "done"
       ELSE /\ u_pc' = next
            /\ UNCHANGED <<u_ret, u_by>>
    /\ UNCHANGED <<u_text, u_fmt, c_vars, b_vars, d_vars, k_vars, p_vars, x_vars>>

RunStrategy1 ==
    /\ u_pc = "s1"
    /\ Outcome(Strategy1(u_text, u_fmt), 1, "s2")

RunStrategy2 ==
    /\ u_pc = "s2"
    /\ Outcome(Strategy2(u_text, u_fmt), 2, "s3")

RunStrategy3 ==
    /\ u_pc = "s3"
    /\ Outcome(Strategy3(u_text), 3, "s4")

\* after the last strategy the function returns None
RunStrategy4 ==
    /\ u_pc = "s4"
    /\ Outcome(Strategy4(u_text), 4, "done")

-----------------------------------------------------------------------------
(* The inputs of extract_usage_amount                                      *)

\* bounds of the input texts
MaxTok == 4
MaxData == 5

RECURSIVE SeqsUpTo(_, _)
SeqsUpTo(S, n) ==
    IF n = 0 THEN {<<>>}
    ELSE SeqsUpTo(S, n - 1) \cup [1..n -> S]

Formats == {"mea", "pea"}

HeaderKinds == {"date_mea", "usage_mea", "date_pea", "usage_pea"}

\* free text: any short sequence of keywords, numbers and newlines
FlatVocab ==
    {Num(v) : v \in {69601, 68211, 1390, 245, 2000, 25}}
        \cup {Kw(k) : k \in HeaderKinds \cup {"NL"}}

FlatTexts == SeqsUpTo(FlatVocab, MaxTok)

\* tables: a header line with the date column and the usage column of one
\* format, in either order, then lines of numbers
TableVocab == {Num(v) : v \in {69601, 1390, 3450, 2000}} \cup {Kw("NL")}

HeaderLines ==
    UNION {{<<Kw(date_header(f)), Kw(usage_header(f))>>,
            <<Kw(usage_header(f)), Kw(date_header(f))>>} : f \in Formats}

TableTexts ==
    {hdr \o <<Kw("NL")>> \o data :
        hdr \in HeaderLines, data \in SeqsUpTo(TableVocab, MaxData)}

\* addresses: numbers next to an address keyword or a slash, or kept away
\* from them by a longer word
MaxAddr == 4

AddressVocab ==
    {Num(v) : v \in {245, 150, 25, 1390}}
        \cup {Kw(k) : k \in {"soi", "slash", "date_mea"}}

AddressTexts == SeqsUpTo(AddressVocab, MaxAddr)

Texts == FlatTexts \cup TableTexts \cup AddressTexts

InitUsage ==
    /\ u_text \in Texts
    /\ u_fmt \in Formats
    /\ u_pc = "s1"
    /\ u_ret = None
    /\ u_tried = <<>>
    /\ u_by = 0
    /\ IdleCorrector
    /\ IdleBill
    /\ IdleDetect
    /\ IdleConfidence
    /\ IdleConcurrent
    /\ IdleRest

NextUsage ==
    \/ RunStrategy1
    \/ RunStrategy2
    \/ RunStrategy3
    \/ RunStrategy4

SpecUsage == InitUsage /\ [][NextUsage]_vars

-----------------------------------------------------------------------------
(* Properties of extract_usage_amount (under SpecUsage)                    *)

Range(s) == {s[i] : i \in 1..Len(s)}

\* what strategy n yields on the input of this run
StrategyResult(n) ==
    CASE n = 1 -> Strategy1(u_text, u_fmt)
      [] n = 2 -> Strategy2(u_text, u_fmt)
      [] n = 3 -> Strategy3(u_text)
      [] n = 4 -> Strategy4(u_text)

\* C1: extract_usage_amount never returns a value in [1900,2100] or
\* [2400,2700], whichever strategy produces it.
C1_NoYearReturned ==
    (u_pc = "done" /\ u_ret # None) =>
        ~((1900 <= u_ret /\ u_ret <= 2100) \/ (2400 <= u_ret /\ u_ret <= 2700))

\* C2: the cascade is strict and ordered.  A strategy is consulted only when
\* every earlier one yielded no candidate, the strategies are consulted in
\* the order 1, 2, 3, 4, the value returned is the candidate of the
\* lowest-numbered strategy that yields one, and None is returned exactly
\* when all four yield none.
C2_OrderedCascade ==
    LET hit == {n \in 1..4 : StrategyResult(n) # None} IN
    /\ \A n \in Range(u_tried) : \A m \in 1..(n - 1) : StrategyResult(m) = None
    /\ \A i \in 1..Len(u_tried) : u_tried[i] = i
    /\ u_pc = "done" =>
         /\ (u_ret = None) <=> (hit = {})
         /\ hit = {} => u_by = 0 /\ Len(u_tried) = 4
         /\ hit # {} => /\ u_by = Min(hit)
                        /\ u_ret = StrategyResult(Min(hit))
                        /\ Len(u_tried) = Min(hit)

\* C2 witness: strategies 1 and 2 yielded nothing and strategy 3 returned.
C2_Witness ==
    /\ u_pc = "done"
    /\ u_by = 3
    /\ u_tried = <<1, 2, 3>>
    /\ u_ret # None

\* The lines of the input, the header rows among them, and for a header row
\* the lines the code reads as its data lines: the next four lines that are
\* at least 10 characters long.
u_lines == SplitLines(u_text)

IsHeaderLine(li) == has_date(u_lines[li], u_fmt) /\ has_usage(u_lines[li], u_fmt)

C3_DataLines(li) ==
    {d \in (li + 1)..Min2(li + 4, Len(u_lines)) : TextLen(u_lines[d]) >= 10}

\* the numeric tokens of line d that lie in [50,5000] outside the year ranges
C3_Cands(d) ==
    LET nums == numbers_with_pos(u_lines[d]) IN
    {n \in 1..Len(nums) :
        /\ 50 <= nums[n].val /\ nums[n].val <= 5000
        /\ ~(1900 <= nums[n].val /\ nums[n].val <= 2100)
        /\ ~(2400 <= nums[n].val /\ nums[n].val <= 2700)}

\* the distance of token n of line d from the usage column of header row li
C3_Dist(li, d, n) ==
    Abs(numbers_with_pos(u_lines[d])[n].pos - usage_col_start(u_lines[li], u_fmt))

C3_Fixture ==
    <<Kw("date_mea"), Kw("usage_mea"), Kw("NL"), Num(69601), Num(69601), Num(1390)>>

\* C3 as stated: the value strategy 1 returns is, among the admissible
\* numeric tokens of all the data lines that follow the header row, one whose
\* offset is closest to the usage header's offset.
C3_ClosestOfAllDataLines ==
    (u_pc = "done" /\ u_by = 1) =>
        \E li \in 1..Len(u_lines) :
            /\ IsHeaderLine(li)
            /\ \E d \in C3_DataLines(li) : \E n \in C3_Cands(d) :
                /\ numbers_with_pos(u_lines[d])[n].val = u_ret
                /\ \A d2 \in C3_DataLines(li) : \A n2 \in C3_Cands(d2) :
                       C3_Dist(li, d, n) <= C3_Dist(li, d2, n2)

\* C3 amended: strategy 1 returns a value exactly when some header row has a
\* data line with an admissible token; the value comes from the first such
\* data line of the first such header row, and within that line it is the
\* admissible token closest to the usage header's offset, the earlier one on
\* a tie.  On the header-aligned fixture the result is 1390, not the meter
\* reading beside it.
C3_ClosestInFirstDataLine ==
    LET pairs == {p \in (1..Len(u_lines)) \X (1..Len(u_lines)) :
                    /\ IsHeaderLine(p[1])
                    /\ p[2] \in C3_DataLines(p[1])
                    /\ C3_Cands(p[2]) # {}}
    IN u_pc = "done" =>
        /\ (u_by = 1) <=> (pairs # {})
        /\ u_by = 1 =>
             LET li == Min({p[1] : p \in pairs})
                 d  == Min({p[2] : p \in {q \in pairs : q[1] = li}})
                 best == CHOOSE n \in C3_Cands(d) : \A m \in C3_Cands(d) :
                            \/ C3_Dist(li, d, n) < C3_Dist(li, d, m)
                            \/ C3_Dist(li, d, n) = C3_Dist(li, d, m) /\ n <= m
             IN u_ret = numbers_with_pos(u_lines[d])[best].val
        /\ (u_text = C3_Fixture /\ u_fmt = "mea") => (u_by = 1 /\ u_ret = 1390)

\* C3 witness: strategy 1 returned a token that is not the first admissible
\* token of its line, because a later one is closer to the usage column.
C3_Witness ==
    /\ u_pc = "done"
    /\ u_by = 1
    /\ \E li \in 1..Len(u_lines) : \E d \in C3_DataLines(li) :
        /\ IsHeaderLine(li)
        /\ Cardinality(C3_Cands(d)) >= 2
        /\ numbers_with_pos(u_lines[d])[Min(C3_Cands(d))].val # u_ret
        /\ \E n \in C3_Cands(d) : numbers_with_pos(u_lines[d])[n].val = u_ret

\* consecutive triples of the numbers strategy 3 reads: i is the index of a
\* triple (a, b, c) whose c is within max(5, 15% of |a-b|) of |a-b|
C4_Close(nums, i) ==
    LET expected == Abs(nums[i] - nums[i + 1]) IN
    100 * Abs(nums[i + 2] - expected) <= Max2(500, 15 * expected)

\* the shape the code asks of a triple: two readings of at least 1000 with a
\* usage in [50,5000] below half of each, or two readings in [10,1000] at
\* least 10 apart with a usage in [10,5000]
C4_Shape(nums, i) ==
    LET a == nums[i]
        b == nums[i + 1]
        c == nums[i + 2]
    IN \/ (a >= 1000 /\ b >= 1000 /\ 50 <= c /\ c <= 5000 /\ 2 * c < a /\ 2 * c < b)
       \/ (10 <= a /\ a <= 1000 /\ 10 <= b /\ b <= 1000 /\ 10 <= c /\ c <= 5000
             /\ Abs(a - b) >= 10)

C4_Fixture == <<Num(69601), Num(68211), Num(1390)>>

-----------------------------------------------------------------------------
(* The text corrector applied to a raw text and again to its own output.   *)

\* extract_usage_amount not called
IdleUsage ==
    /\ u_text = <<>>
    /\ u_fmt = "mea"
    /\ u_pc = "idle"
    /\ u_ret = None
    /\ u_tried = <<>>
    /\ u_by = 0

MaxLen == 4

\* เ ง น blank O า ํ
Chars == {"sara_e", "ngo_ngu", "no_nu", " ", "O", "sara_aa", "nikhahit"}

RawTexts == SeqsUpTo(Chars, MaxLen)

InitCorrector ==
    /\ c_raw \in RawTexts
    /\ c_once = <<>>
    /\ c_twice = <<>>
    /\ c_pc = "raw"
    /\ IdleUsage
    /\ IdleBill
    /\ IdleDetect
    /\ IdleConfidence
    /\ IdleConcurrent
    /\ IdleRest

CorrectOnce ==
    /\ c_pc = "raw"
    /\ c_once' = clean_and_correct_text(c_raw)
    /\ c_pc' = "once"
    /\ UNCHANGED <<c_raw, c_twice, u_vars, b_vars, d_vars, k_vars, p_vars, x_vars>>

CorrectTwice ==
    /\ c_pc = "once"
    /\ c_twice' = clean_and_correct_text(c_once)
    /\ c_pc' = "twice"
    /\ UNCHANGED <<c_raw, c_once, u_vars, b_vars, d_vars, k_vars, p_vars, x_vars>>

NextCorrector == CorrectOnce \/ CorrectTwice

SpecCorrector == InitCorrector /\ [][NextCorrector]_vars

\* C7: the text corrector is idempotent: correcting its own output changes
\* nothing.
C7_Idempotent == c_pc = "twice" => c_twice = c_once

-----------------------------------------------------------------------------
(* process_bill and its caller process_image_ocr.  The text of a crop is a *)
(* sequence of tokens; a date token d/m/y has one or two digits of day and *)
(* month and, for y below 100, two digits of year.                         *)

\* the digits of a date token d/m/y held as one number, and read back
Date(d, m, y) == [k |-> "date", v |-> (d * 100 + m) * 10000 + y]

Day(t) == t.v \div 1000000

Month(t) == (t.v \div 10000) % 100

Year(t) == t.v % 10000

IsDate(t) == t.k = "date"

\* re.search(r'(\d+(?:\.\d+)?)', usage_text): the first run of digits, which
\* is the day when a date token comes first; None without a match
FirstNumber(text) ==
    LET hits == {i \in 1..Len(text) : IsNum(text[i]) \/ IsDate(text[i])} IN
    IF hits = {} THEN None
    ELSE LET t == text[Min(hits)] IN IF IsNum(t) THEN t.v ELSE Day(t)

\* re.search(r'(\d{1,2})/(\d{1,2})/(\d{2,4})', date_text): the index of the
\* first date token, 0 without a match
FirstDate(text) ==
    LET hits == {i \in 1..Len(text) : IsDate(text[i])} IN
    IF hits = {} THEN 0 ELSE Min(hits)

\* the year written without the calendar conversion
ParseYear_AsWritten(year) == year

\* if year < 100: year += 2500;  if year > 2500: year -= 543
ParseYear(year) ==
    LET buddhist == IF year < 100 THEN year + 2500 ELSE year IN
    IF buddhist > 2500 THEN buddhist - 543 ELSE buddhist

\* bill_format = 'pea' if height / width > 1.3 else 'mea'
bill_format(size) == IF 10 * size[2] > 13 * size[1] THEN "pea" ELSE "mea"

\* dict.get(key): truthiness of the value, a missing key being None
Truthy(d, key) == key \in DOMAIN d /\ d[key] # 0

\* Step 4: extracted_data as built from the results of the script
extracted_data(fmt, results) ==
    LET base == [bill_format |-> fmt, ocr_confidence |-> 95,
                 extraction_method |-> "external_script"]
        usage == FirstNumber(results.usage)
        with_usage == IF usage # None THEN ("usage_kwh" :> usage) @@ base
                      ELSE base
        di == FirstDate(results.date)
    IN  IF di = 0 THEN with_usage
        ELSE ("month" :> Month(results.date[di]))
             @@ ("year" :> ParseYear(Year(results.date[di])))
             @@ ("reading_date" :> results.date)
             @@ with_usage

\* Validation: the dict returned from the try block
Validation(data, results) ==
    IF ~Truthy(data, "usage_kwh")
    THEN [success |-> FALSE,
          error |-> "Could not extract electricity usage",
          extracted_data |-> data,
          raw_results |-> results]
    ELSE [success |-> TRUE,
          data |-> data,
          message |-> <<"Successfully extracted", data.usage_kwh,
                        data.bill_format>>]

\* except Exception as e: the dict returned by the handler
ExceptionResult(exc) ==
    [success |-> FALSE, error |-> exc,
     message |-> <<"OCR processing failed", exc>>]

MaxUsageTok == 2

MaxDateTok == 1

MaxOffset == 2

\* sizes of the rendered page: portrait A4, landscape A4, and 1.3 exactly
PageSizes == {<<2480, 3508>>, <<3508, 2480>>, <<1000, 1300>>}

UsageVocab == {Num(245), Num(7), Num(0), Kw("usage_mea")}

DateVocab ==
    {Date(12, m, y) : m \in {1, 4, 13}, y \in {0, 68, 2500, 2568, 2025}}
        \cup {Kw("date_mea")}

\* the dicts the extraction scripts can return: one text per crop
Results ==
    [usage : SeqsUpTo(UsageVocab, MaxUsageTok),
     date : SeqsUpTo(DateVocab, MaxDateTok)]

\* process_image_ocr and process_pdf_bill
EntryPaths == {"image", "pdf"}

\* the token confidences the engine can have for a bill
BillConfs == {<<50>>, <<95>>}

Nows == {[month |-> 11, year |-> 2026], [month |-> 1, year |-> 2027]}

InitBill ==
    /\ b_path \in EntryPaths
    /\ b_pc = (IF b_path = "pdf" THEN "convert" ELSE "start")
    /\ b_confs = <<>>
    /\ b_size = <<0, 0>>
    /\ b_format = "unknown"
    /\ b_results = [usage |-> <<>>, date |-> <<>>]
    /\ b_data = <<>>
    /\ b_result = <<>>
    /\ b_exc = "none"
    /\ b_tmp = FALSE
    /\ b_env = None
    /\ b_now = <<>>
    /\ b_record = <<>>
    /\ IdleUsage
    /\ IdleCorrector
    /\ IdleDetect
    /\ IdleConfidence
    /\ IdleConcurrent
    /\ IdleRest

\* Step 1: tempfile.NamedTemporaryFile(delete=False) and write, outside the
\* inner try: a failure goes to the handler without the finally clause
SaveTempFile ==
    /\ b_pc = "start"
    /\ \/ /\ b_tmp' = TRUE
          /\ b_pc' = "render"
          /\ UNCHANGED b_exc
       \/ /\ b_tmp' \in BOOLEAN
          /\ b_exc' = "tempfile"
          /\ b_pc' = "except"
    /\ UNCHANGED <<b_size, b_format, b_results, b_data, b_result, b_env,
                   b_now, b_record, b_confs, b_path,
                   u_vars, c_vars, d_vars, k_vars, p_vars, x_vars>>

\* Step 2: render_pdf_at_high_dpi, which raises when rendering fails
RenderPdf ==
    /\ b_pc = "render"
    /\ \/ \E size \in PageSizes :
            /\ b_size' = size
            /\ b_format' = bill_format(size)
            /\ b_pc' = "extract"
            /\ UNCHANGED b_exc
       \/ /\ b_exc' = "render"
          /\ b_pc' = "finally"
          /\ UNCHANGED <<b_size, b_format>>
    /\ UNCHANGED <<b_results, b_data, b_result, b_tmp, b_env, b_now,
                   b_record, b_confs, b_path,
                   u_vars, c_vars, d_vars, k_vars, p_vars, x_vars>>

\* Step 3: extract_mea / extract_pea, which open and OCR the PDF again
ExtractFields ==
    /\ b_pc = "extract"
    /\ \/ \E results \in Results, confs \in BillConfs :
            /\ b_results' = results
            /\ b_confs' = confs
            /\ b_pc' = "parse"
            /\ UNCHANGED b_exc
       \/ /\ b_exc' = "extract"
          /\ b_pc' = "finally"
          /\ UNCHANGED <<b_results, b_confs>>
    /\ UNCHANGED <<b_size, b_format, b_data, b_result, b_tmp, b_env, b_now,
                   b_record, b_path,
                   u_vars, c_vars, d_vars, k_vars, p_vars, x_vars>>

\* Step 4 and the validation: the return value is fixed, then finally runs
ParseAndValidate ==
    /\ b_pc = "parse"
    /\ b_data' = extracted_data(b_format, b_results)
    /\ b_result' = Validation(b_data', b_results)
    /\ b_pc' = "finally"
    /\ UNCHANGED <<b_size, b_format, b_results, b_exc, b_tmp, b_env, b_now,
                   b_record, b_confs, b_path,
                   u_vars, c_vars, d_vars, k_vars, p_vars, x_vars>>

\* finally: os.unlink(tmp_pdf_path), its own failure printed and dropped
RemoveTempFile ==
    /\ b_pc = "finally"
    /\ \E removed \in BOOLEAN : b_tmp' = ~removed
    /\ b_pc' = IF b_exc = "none" THEN "returned" ELSE "except"
    /\ UNCHANGED <<b_size, b_format, b_results, b_data, b_result, b_exc,
                   b_env, b_now, b_record, b_confs, b_path,
                   u_vars, c_vars, d_vars, k_vars, p_vars, x_vars>>

\* the exception leaves process_bill
HandleException_Propagate ==
    /\ b_pc = "except"
    /\ b_pc' = "propagated"
    /\ UNCHANGED <<b_size, b_format, b_results, b_data, b_result, b_exc,
                   b_tmp, b_env, b_now, b_record, b_confs, b_path,
                   u_vars, c_vars, d_vars, k_vars, p_vars, x_vars>>

\* except Exception as e: return the error dict
HandleException ==
    /\ b_pc = "except"
    /\ b_result' = ExceptionResult(b_exc)
    /\ b_pc' = "returned"
    /\ UNCHANGED <<b_size, b_format, b_results, b_data, b_exc, b_tmp, b_env,
                   b_now, b_record, b_confs, b_path,
                   u_vars, c_vars, d_vars, k_vars, p_vars, x_vars>>

\* int(os.getenv('BILL_DATE_OFFSET', '0'))
bill_date_offset(env) == IF env = None THEN 0 ELSE env

\* actual_month, actual_year: the offset subtracted, with the year boundary
usage_period(bill_month, bill_year, offset) ==
    IF bill_month - offset < 1
    THEN [month |-> 12, year |-> bill_year - 1]
    ELSE [month |-> bill_month - offset, year |-> bill_year]

\* d.get(key, 0): the default of the caller dropped
Get_NoDefault(d, key, default) == IF key \in DOMAIN d THEN d[key] ELSE 0

\* d.get(key, default)
Get(d, key, default) == IF key \in DOMAIN d THEN d[key] ELSE default

\* process_image_ocr on a successful result: the emission record is built and
\* inserted; datetime(actual_year, actual_month, 1) raises on a month outside
\* 1..12 and the handler falls back to process_image_ocr_simple
RecordEmission ==
    /\ b_pc = "returned"
    /\ b_path = "image"
    /\ b_result.success
    /\ Truthy(b_result.data, "usage_kwh")
    /\ \E env \in {None} \cup (0..MaxOffset), now \in Nows :
        LET bill_month == Get(b_result.data, "month", now.month)
            bill_year == Get(b_result.data, "year", now.year)
            actual == usage_period(bill_month, bill_year,
                                   bill_date_offset(env))
        IN  /\ b_env' = env
            /\ b_now' = now
            /\ IF actual.month \in 1..12
               THEN /\ b_record' = [amount |-> b_result.data.usage_kwh,
                                    month |-> actual.month,
                                    year |-> actual.year,
                                    bill_reading_date |->
                                        <<bill_month, bill_year>>]
                    /\ b_pc' = "recorded"
               ELSE /\ b_pc' = "simple"
                    /\ UNCHANGED b_record
    /\ UNCHANGED <<b_size, b_format, b_results, b_data, b_result, b_exc,
                   b_tmp, b_confs, b_path,
                   u_vars, c_vars, d_vars, k_vars, p_vars, x_vars>>

\* process_image_ocr on a failed result: process_image_ocr_simple
FallBackToSimple ==
    /\ b_pc = "returned"
    /\ b_path = "image"
    /\ ~(b_result.success /\ Truthy(b_result.data, "usage_kwh"))
    /\ b_pc' = "simple"
    /\ UNCHANGED <<b_size, b_format, b_results, b_data, b_result, b_exc,
                   b_tmp, b_env, b_now, b_record, b_confs, b_path,
                   u_vars, c_vars, d_vars, k_vars, p_vars, x_vars>>

\* process_pdf_bill before it calls process_bill: the upload is saved and
\* opened; a PDF without pages, or any exception, ends in a failure dict
ConvertPdf ==
    /\ b_pc = "convert"
    /\ b_pc' \in {"start", "rejected"}
    /\ UNCHANGED <<b_size, b_format, b_results, b_data, b_result, b_exc,
                   b_tmp, b_env, b_now, b_record, b_confs, b_path,
                   u_vars, c_vars, d_vars, k_vars, p_vars, x_vars>>

\* int(os.getenv('BILL_DATE_OFFSET', '1')) of process_pdf_bill
pdf_bill_date_offset(env) == IF env = None THEN 1 ELSE env

\* process_pdf_bill on a successful result: the same record as the image
\* path, with its own default offset; an exception ends in a failure dict
RecordEmissionPdf ==
    /\ b_pc = "returned"
    /\ b_path = "pdf"
    /\ b_result.success
    /\ Truthy(b_result.data, "usage_kwh")
    /\ \E env \in {None} \cup (0..MaxOffset), now \in Nows :
        LET bill_month == Get(b_result.data, "month", now.month)
            bill_year == Get(b_result.data, "year", now.year)
            actual == usage_period(bill_month, bill_year,
                                   pdf_bill_date_offset(env))
        IN  /\ b_env' = env
            /\ b_now' = now
            /\ IF actual.month \in 1..12
               THEN /\ b_record' = [amount |-> b_result.data.usage_kwh,
                                    month |-> actual.month,
                                    year |-> actual.year,
                                    bill_reading_date |->
                                        <<bill_month, bill_year>>]
                    /\ b_pc' = "recorded"
               ELSE /\ b_pc' = "failed"
                    /\ UNCHANGED b_record
    /\ UNCHANGED <<b_size, b_format, b_results, b_data, b_result, b_exc,
                   b_tmp, b_confs, b_path, u_vars, c_vars, d_vars, k_vars, p_vars, x_vars>>

\* process_pdf_bill on a failed result: a failure dict with the message
ReportPdfFailure ==
    /\ b_pc = "returned"
    /\ b_path = "pdf"
    /\ ~(b_result.success /\ Truthy(b_result.data, "usage_kwh"))
    /\ b_pc' = "failed"
    /\ UNCHANGED <<b_size, b_format, b_results, b_data, b_result, b_exc,
                   b_tmp, b_env, b_now, b_record, b_confs, b_path,
                   u_vars, c_vars, d_vars, k_vars, p_vars, x_vars>>

NextBill ==
    \/ ConvertPdf
    \/ RecordEmissionPdf
    \/ ReportPdfFailure
    \/ SaveTempFile
    \/ RenderPdf
    \/ ExtractFields
    \/ ParseAndValidate
    \/ RemoveTempFile
    \/ HandleException
    \/ RecordEmission
    \/ FallBackToSimple

SpecBill == InitBill /\ [][NextBill]_vars

-----------------------------------------------------------------------------
(* Claims about process_bill and process_image_ocr                         *)

\* process_bill has returned after parsing the results of the script
Parsed ==
    b_pc \in {"returned", "recorded", "simple", "failed"} /\ b_exc = "none"

\* the date token the parser reads, as <<d, m, y>>
ReadDate ==
    LET t == b_results.date[FirstDate(b_results.date)] IN
    <<Day(t), Month(t), Year(t)>>

\* C5: a day/month/two-digit-year token DD/MM/yy resolves to month MM and
\* year yy + 1957 (yy read as 2500 + yy of the Buddhist calendar, less 543).
C5_TwoDigitYear ==
    (Parsed /\ FirstDate(b_results.date) # 0 /\ ReadDate[3] < 100)
        => /\ b_data.month = ReadDate[2]
           /\ b_data.year = ReadDate[3] + 1957

\* C6: for a reading month m in 1..12 and a configured offset k >= 0 the
\* usage month is in 1..12 and the usage period lies exactly k months before
\* the reading period.
C6_MovedBackByOffset ==
    (b_pc = "recorded" /\ b_env # None
        /\ b_record.bill_reading_date[1] \in 1..12)
        => /\ b_record.month \in 1..12
           /\ 12 * b_record.year + b_record.month
                = 12 * b_record.bill_reading_date[2]
                    + b_record.bill_reading_date[1]
                    - b_env

\* a date token of a day in 1..31, a month in 1..12 and a year that stands
\* for 2000..2030: Buddhist in two or four digits, or Gregorian
ValidDate(dmy) ==
    /\ dmy[1] \in 1..31
    /\ dmy[2] \in 1..12
    /\ \/ dmy[3] \in 43..73
       \/ dmy[3] \in 2543..2573
       \/ dmy[3] \in 2000..2030

\* the Gregorian year a valid date token stands for
GregorianYear(y) ==
    IF y < 100 THEN y + 1957 ELSE IF y >= 2543 THEN y - 543 ELSE y

\* the MEA fixture: the usage crop starts with the usage keyword and then
\* 245, the date crop holds a valid date token
C8_Fixture ==
    /\ Parsed
    /\ b_format = "mea"
    /\ Len(b_results.usage) >= 2
    /\ b_results.usage[1] = Kw("usage_mea")
    /\ b_results.usage[2] = Num(245)
    /\ FirstDate(b_results.date) # 0
    /\ ValidDate(ReadDate)

OnlyOutOfWindow ==
    /\ \E i \in 1..Len(b_results.usage) : IsNum(b_results.usage[i])
    /\ \A i \in 1..Len(b_results.usage) :
        /\ IsNum(b_results.usage[i])
        /\ b_results.usage[i].v \notin 50..5000

\* C9: when every number of the text lies outside the usage window the result
\* has success false, no usage value, and a non-empty list of the rejected
\* candidates.
C9_EndToEndFailure ==
    (Parsed /\ OnlyOutOfWindow)
        => /\ b_result.success = FALSE
           /\ "extracted_data" \in DOMAIN b_result
           /\ "usage_kwh" \notin DOMAIN b_result.extracted_data
           /\ "rejected_candidates" \in DOMAIN b_result
           /\ b_result.rejected_candidates # <<>>

\* the usage crop yields no usage: no number, or the number 0
UsageNotFound ==
    /\ b_exc = "none"
    /\ FirstNumber(b_results.usage) \in {None, 0}

\* C10: process_bill always ends by returning a dict with a boolean success
\* field, never by an exception; when the usage is not found the dict has
\* success false and carries the extracted data and the raw results.
C10_AlwaysWellFormed ==
    /\ b_pc \in {"idle", "convert", "rejected", "start", "render", "extract",
                 "parse", "finally", "except", "returned", "recorded",
                 "simple", "failed"}
    /\ b_pc \in {"returned", "recorded", "simple", "failed"}
        => /\ "success" \in DOMAIN b_result
           /\ b_result.success \in BOOLEAN
           /\ "error" \in DOMAIN b_result \/ "data" \in DOMAIN b_result
           /\ UsageNotFound
                => /\ b_result.success = FALSE
                   /\ "error" \in DOMAIN b_result
                   /\ "extracted_data" \in DOMAIN b_result
                   /\ b_result.extracted_data = b_data
                   /\ "raw_results" \in DOMAIN b_result
                   /\ b_result.raw_results = b_results

C10_Witness ==
    /\ b_pc = "returned"
    /\ UsageNotFound
    /\ b_results.usage = <<Kw("usage_mea"), Num(0)>>
    /\ b_result.success = FALSE

-----------------------------------------------------------------------------
(* detect_bill_format.  The text is a sequence of characters; a Thai       *)
(* keyword and the words Metropolitan and Provincial are each written as   *)
(* one character, the Latin letters of "mea" and "pea" one by one.         *)

\* str.lower() on one character
Lower(c) ==
    CASE c = "M" -> "m"
      [] c = "E" -> "e"
      [] c = "A" -> "a"
      [] c = "P" -> "p"
      [] c = "Metropolitan" -> "metropolitan"
      [] c = "Provincial" -> "provincial"
      [] OTHER -> c

\* text.lower()
text_lower(text) == [i \in 1..Len(text) |-> Lower(text[i])]

\* keyword in text
Occurs(keyword, text) == \E i \in 1..Len(text) : StartsWith(text, i, keyword)

\* ['การไฟฟ้านครหลวง', 'metropolitan', 'mea']
mea_authority_keywords ==
    {<<"mea_authority">>, <<"metropolitan">>, <<"m", "e", "a">>}

\* ['การไฟฟ้าส่วนภูมิภาค', 'provincial', 'pea']
pea_authority_keywords ==
    {<<"pea_authority">>, <<"provincial">>, <<"p", "e", "a">>}

\* the authority keywords compared without lowering the text
detect_bill_format_CaseSensitive(text) ==
    IF \E keyword \in mea_authority_keywords : Occurs(keyword, text)
    THEN "mea"
    ELSE IF \E keyword \in pea_authority_keywords : Occurs(keyword, text)
    THEN "pea"
    ELSE IF Occurs(<<"usage_mea">>, text) THEN "mea"
    ELSE IF Occurs(<<"usage_pea">>, text) THEN "pea"
    ELSE "mea"

\* the usage keywords are จำนวนหน่วย (usage_mea) and จำนวนที่ใช้ (usage_pea),
\* looked up in the text as given
detect_bill_format(text) ==
    IF \E keyword \in mea_authority_keywords :
            Occurs(keyword, text_lower(text))
    THEN "mea"
    ELSE IF \E keyword \in pea_authority_keywords :
            Occurs(keyword, text_lower(text))
    THEN "pea"
    ELSE IF Occurs(<<"usage_mea">>, text) THEN "mea"
    ELSE IF Occurs(<<"usage_pea">>, text) THEN "pea"
    ELSE "mea"

MaxDetLen == 3

DetectChars ==
    {"m", "e", "a", "p", "E", "mea_authority", "pea_authority",
     "Provincial", "usage_mea", "usage_pea"}

DetectTexts == SeqsUpTo(DetectChars, MaxDetLen)

InitDetect ==
    /\ d_text \in DetectTexts
    /\ d_ret = "none"
    /\ d_pc = "call"
    /\ IdleUsage
    /\ IdleCorrector
    /\ IdleBill
    /\ IdleConfidence
    /\ IdleConcurrent
    /\ IdleRest

DetectFormat ==
    /\ d_pc = "call"
    /\ d_ret' = detect_bill_format(d_text)
    /\ d_pc' = "done"
    /\ UNCHANGED <<d_text, u_vars, c_vars, b_vars, k_vars, p_vars, x_vars>>

NextDetect == DetectFormat

SpecDetect == InitDetect /\ [][NextDetect]_vars

\* the keyword occurs in the text, letters compared without regard to case
OccursAnyCase(keyword, text) ==
    \E i \in 1..(Len(text) - Len(keyword) + 1) :
        \A n \in 1..Len(keyword) : Lower(text[i + n - 1]) = Lower(keyword[n])

HasMeaAuthority == \E kw \in mea_authority_keywords : OccursAnyCase(kw, d_text)

HasPeaAuthority == \E kw \in pea_authority_keywords : OccursAnyCase(kw, d_text)

HasMeaUsage == \E i \in 1..Len(d_text) : d_text[i] = "usage_mea"

HasPeaUsage == \E i \in 1..Len(d_text) : d_text[i] = "usage_pea"

\* C11: detect_bill_format returns 'mea' or 'pea' for every text: 'mea' on an
\* MEA authority keyword, else 'pea' on a PEA authority keyword, else 'mea' on
\* the MEA usage keyword, else 'pea' on the PEA usage keyword, else 'mea'.
C11_TotalPriorityOrder ==
    d_pc = "done" =>
        /\ d_ret \in {"mea", "pea"}
        /\ HasMeaAuthority => d_ret = "mea"
        /\ (~HasMeaAuthority /\ HasPeaAuthority) => d_ret = "pea"
        /\ (~HasMeaAuthority /\ ~HasPeaAuthority /\ HasMeaUsage)
                => d_ret = "mea"
        /\ (~HasMeaAuthority /\ ~HasPeaAuthority /\ ~HasMeaUsage
                /\ HasPeaUsage) => d_ret = "pea"
        /\ (~HasMeaAuthority /\ ~HasPeaAuthority /\ ~HasMeaUsage
                /\ ~HasPeaUsage) => d_ret = "mea"

\* a capitalised PEA authority keyword wins over the MEA usage keyword
C11_Witness ==
    /\ d_pc = "done"
    /\ d_text = <<"usage_mea", "Provincial">>
    /\ d_ret = "pea"

-----------------------------------------------------------------------------
(* Claims about the values process_bill reports                            *)

\* the extracted data inside the dict process_bill returned
ReportedData ==
    IF b_result.success THEN b_result.data ELSE b_result.extracted_data

\* C12: a period that process_bill reports has its month in 1..12 and its
\* year in 2000..2030; a date token outside these bounds yields no period.
C12_PeriodWithinBounds ==
    (Parsed /\ "month" \in DOMAIN ReportedData)
        => /\ ReportedData.month \in 1..12
           /\ ReportedData.year \in 2000..2030

\* C13: a usage value returned with success true lies in the window 50..5000.
C13_UsageWithinWindow ==
    (Parsed /\ b_result.success)
        => b_result.data.usage_kwh \in 50..5000

\* the usage crop yields a usage value
UsageFound == FirstNumber(b_results.usage) \notin {None, 0}

\* C18: with a usage but no date the result is a success without month and
\* year and the caller records the month and year of the processing date;
\* with a date but no usage the result is a failure that carries the month
\* and year of the date.
C18_PartialSuccess ==
    /\ (Parsed /\ UsageFound /\ FirstDate(b_results.date) = 0)
        => /\ b_result.success = TRUE
           /\ b_result.data.usage_kwh = FirstNumber(b_results.usage)
           /\ "month" \notin DOMAIN b_result.data
           /\ "year" \notin DOMAIN b_result.data
           /\ b_pc \in {"returned", "recorded"}
           /\ b_pc = "recorded"
                => b_record.bill_reading_date = <<b_now.month, b_now.year>>
    /\ (Parsed /\ ~UsageFound /\ FirstDate(b_results.date) # 0)
        => /\ b_result.success = FALSE
           /\ "month" \in DOMAIN b_result.extracted_data
           /\ "year" \in DOMAIN b_result.extracted_data
           /\ b_result.extracted_data.month = ReadDate[2]
           /\ b_result.extracted_data.year = b_data.year

C18_Witness ==
    /\ b_pc = "recorded"
    /\ b_results.usage = <<Num(245)>>
    /\ b_results.date = <<>>
    /\ b_result.success
    /\ b_record.bill_reading_date = <<b_now.month, b_now.year>>

-----------------------------------------------------------------------------
(* Further claims about extract_usage_amount                               *)

\* C14: extract_usage_amount never returns a value of 31 or less, whichever
\* strategy produced it.
C14_NoDayOfMonthReturned ==
    (u_pc = "done" /\ u_ret # None) => u_ret > 31

-----------------------------------------------------------------------------
(* extract_text_with_confidence: the average confidence.  Confidences are  *)
(* whole percents; Tesseract reports -1 for a box that holds no word.      *)

RECURSIVE Sum(_)
Sum(s) == IF s = <<>> THEN 0 ELSE Head(s) + Sum(Tail(s))

\* every entry of data['conf'] is kept
confidences_Unfiltered(conf) == conf

\* [int(conf) for conf in data['conf'] if int(conf) > 0]
confidences(conf) == SelectSeq(conf, LAMBDA c : c > 0)

\* sum(confidences) / len(confidences) if confidences else 0, as a fraction
avg_confidence(conf) ==
    LET cs == confidences(conf) IN
    IF cs = <<>> THEN <<0, 1>> ELSE <<Sum(cs), Len(cs)>>

MaxConf == 4

\* data['conf'] of pytesseract.image_to_data
TesseractConfs == SeqsUpTo({-1, 0, 50, 95, 100}, MaxConf)

InitConfidence ==
    /\ k_paddle \in BOOLEAN
    /\ k_conf \in TesseractConfs
    /\ k_avg = <<0, 1>>
    /\ k_pc = "call"
    /\ IdleUsage
    /\ IdleCorrector
    /\ IdleBill
    /\ IdleDetect
    /\ IdleConcurrent
    /\ IdleRest

\* Tesseract answers: the average is computed and returned with the text
AverageConfidence ==
    /\ k_pc = "call"
    /\ ~k_paddle
    /\ k_avg' = avg_confidence(k_conf)
    /\ k_pc' = "done"
    /\ UNCHANGED <<k_paddle, k_conf, u_vars, c_vars, b_vars, d_vars, p_vars, x_vars>>

\* use_paddle: extract_text_with_paddle reads self.paddle_ocr, which no
\* code sets before; the AttributeError is wrapped and raised again
PaddleFails ==
    /\ k_pc = "call"
    /\ k_paddle
    /\ k_pc' = "raised"
    /\ UNCHANGED <<k_paddle, k_conf, k_avg, u_vars, c_vars, b_vars, d_vars, p_vars, x_vars>>

\* Tesseract fails: the exception is wrapped and raised again
EngineFails ==
    /\ k_pc = "call"
    /\ ~k_paddle
    /\ k_pc' = "raised"
    /\ UNCHANGED <<k_paddle, k_conf, k_avg, u_vars, c_vars, b_vars, d_vars, p_vars, x_vars>>

NextConfidence == AverageConfidence \/ PaddleFails \/ EngineFails

SpecConfidence == InitConfidence /\ [][NextConfidence]_vars

\* the positions of k_conf that hold a strictly positive confidence
PositiveAt == {i \in 1..Len(k_conf) : k_conf[i] > 0}

RECURSIVE SumAt(_)
SumAt(S) ==
    IF S = {} THEN 0
    ELSE LET i == CHOOSE j \in S : TRUE IN k_conf[i] + SumAt(S \ {i})

\* C15: the score is the arithmetic mean of exactly the strictly positive
\* token confidences, 0 when there is none, and lies in 0..100 when the
\* confidences do.
C15_MeanOfPositive ==
    k_pc = "done" =>
        /\ k_avg[2] > 0
        /\ PositiveAt = {} => k_avg[1] = 0
        /\ PositiveAt # {}
            => k_avg[1] * Cardinality(PositiveAt) = SumAt(PositiveAt) * k_avg[2]
        /\ (\A i \in 1..Len(k_conf) : k_conf[i] <= 100)
            => (0 <= k_avg[1] /\ k_avg[1] <= 100 * k_avg[2])

\* a list with a wordless box, a zero and two positive confidences
C15_Witness ==
    /\ k_pc = "done"
    /\ ~k_paddle
    /\ k_conf = <<-1, 0, 50, 95>>
    /\ k_avg = <<145, 2>>

-----------------------------------------------------------------------------
(* Claims about the confidence, the default offset and the format          *)

\* C16: the confidence reported in the result is the average of the token
\* confidences the text engine had for the bill.
C16_ConfidenceIsEngineAverage ==
    Parsed =>
        ReportedData.ocr_confidence * Len(b_confs) = Sum(b_confs)

\* C17: without a configured offset the stored usage period is the reading
\* period, on the image path and on the PDF path.
C17_DefaultOffsetZero ==
    (b_pc = "recorded" /\ b_env = None)
        => /\ b_record.month = b_record.bill_reading_date[1]
           /\ b_record.year = b_record.bill_reading_date[2]

\* the text recognised for the bill, as the characters detect_bill_format
\* reads: a keyword by its name, a number or a date by its kind
RecognisedText ==
    LET tokens == b_results.usage \o b_results.date IN
    [i \in 1..Len(tokens) |->
        IF IsNum(tokens[i]) \/ IsDate(tokens[i]) THEN "0" ELSE tokens[i].k]

\* C20: the format in the result is the one detect_bill_format derives from
\* the recognised text, so that the same text always gets the same format.
C20_FormatFromClassifier ==
    Parsed => /\ ReportedData.bill_format = detect_bill_format(RecognisedText)
              /\ b_format = ReportedData.bill_format

-----------------------------------------------------------------------------
(* Two process_bill runs on one ThaiElectricityBillOCR object, their steps *)
(* interleaved.  The runs share the tables of the object and the temporary *)
(* directory; everything else is local to a run.                           *)

Runs == {1, 2}

\* file names NamedTemporaryFile can pick
TmpNames == {"tmp_a", "tmp_b", "tmp_c", "tmp_d"}

\* the tables set by __init__: the crops of each format, the usage keywords
\* of each format, the correction table
Config ==
    [crop_coords |-> [mea |-> {"usage", "date"}, pea |-> {"date", "usage"}],
     bill_patterns |-> [mea |-> {"usage_mea"}, pea |-> {"usage_pea"}],
     text_corrections |-> text_corrections]

Bills ==
    {[size |-> <<3508, 2480>>,
      results |-> [usage |-> <<Kw("usage_mea"), Num(245)>>,
                   date |-> <<Date(12, 4, 68)>>]],
     [size |-> <<2480, 3508>>,
      results |-> [usage |-> <<Num(7)>>, date |-> <<>>]],
     [size |-> <<1000, 1300>>,
      results |-> [usage |-> <<>>, date |-> <<Date(12, 1, 2568)>>]]}

InitConcurrent ==
    /\ p_config = Config
    /\ p_bill \in {f \in [Runs -> Bills] : f[1] # f[2]}
    /\ p_pc = [r \in Runs |-> "start"]
    /\ p_name = [r \in Runs |-> "none"]
    /\ p_fs = <<>>
    /\ p_format = [r \in Runs |-> "unknown"]
    /\ p_results = [r \in Runs |-> [usage |-> <<>>, date |-> <<>>]]
    /\ p_result = [r \in Runs |-> <<>>]
    /\ p_exc = [r \in Runs |-> "none"]
    /\ IdleUsage
    /\ IdleCorrector
    /\ IdleBill
    /\ IdleDetect
    /\ IdleConfidence
    /\ IdleRest

\* any name, taken or not
FreeNames_Any(fs) == TmpNames

\* NamedTemporaryFile creates the file exclusively: a name not in use
FreeNames(fs) == TmpNames \ DOMAIN fs

\* the directory after the file is unlinked
Unlink(fs, name) == [n \in DOMAIN fs \ {name} |-> fs[n]]

\* Step 1 of a run: the PDF bytes are written to a new temporary file
PSaveTempFile(r) ==
    /\ p_pc[r] = "start"
    /\ \/ \E name \in FreeNames(p_fs) :
            /\ p_fs' = (name :> p_bill[r]) @@ p_fs
            /\ p_name' = [p_name EXCEPT ![r] = name]
            /\ p_pc' = [p_pc EXCEPT ![r] = "render"]
            /\ UNCHANGED p_exc
       \/ /\ p_exc' = [p_exc EXCEPT ![r] = "tempfile"]
          /\ p_pc' = [p_pc EXCEPT ![r] = "except"]
          /\ UNCHANGED <<p_fs, p_name>>
    /\ UNCHANGED <<p_config, p_bill, p_format, p_results, p_result,
                   u_vars, c_vars, b_vars, d_vars, k_vars, x_vars>>

\* Step 2 of a run: the format from the page rendered from the PDF bytes
PRenderPdf(r) ==
    /\ p_pc[r] = "render"
    /\ \/ /\ p_format' = [p_format EXCEPT ![r] = bill_format(p_bill[r].size)]
          /\ p_pc' = [p_pc EXCEPT ![r] = "extract"]
          /\ UNCHANGED p_exc
       \/ /\ p_exc' = [p_exc EXCEPT ![r] = "render"]
          /\ p_pc' = [p_pc EXCEPT ![r] = "finally"]
          /\ UNCHANGED p_format
    /\ UNCHANGED <<p_config, p_bill, p_name, p_fs, p_results, p_result,
                   u_vars, c_vars, b_vars, d_vars, k_vars, x_vars>>

\* Step 3 of a run: the script opens the file at tmp_pdf_path and reads the
\* crops that self.crop_coords names for the format; a missing file raises
PExtractFields(r) ==
    /\ p_pc[r] = "extract"
    /\ \/ /\ p_name[r] \in DOMAIN p_fs
          /\ LET coords == p_config.crop_coords[p_format[r]]
                 page == p_fs[p_name[r]].results
             IN  p_results' = [p_results EXCEPT ![r] =
                    [usage |-> IF "usage" \in coords THEN page.usage ELSE <<>>,
                     date |-> IF "date" \in coords THEN page.date ELSE <<>>]]
          /\ p_pc' = [p_pc EXCEPT ![r] = "parse"]
          /\ UNCHANGED p_exc
       \/ /\ p_exc' = [p_exc EXCEPT ![r] = "extract"]
          /\ p_pc' = [p_pc EXCEPT ![r] = "finally"]
          /\ UNCHANGED p_results
    /\ UNCHANGED <<p_config, p_bill, p_name, p_fs, p_format, p_result,
                   u_vars, c_vars, b_vars, d_vars, k_vars, x_vars>>

\* Step 4 and the validation of a run
PParseAndValidate(r) ==
    /\ p_pc[r] = "parse"
    /\ p_result' = [p_result EXCEPT ![r] =
            Validation(extracted_data(p_format[r], p_results[r]),
                       p_results[r])]
    /\ p_pc' = [p_pc EXCEPT ![r] = "finally"]
    /\ UNCHANGED <<p_config, p_bill, p_name, p_fs, p_format, p_results,
                   p_exc, u_vars, c_vars, b_vars, d_vars, k_vars, x_vars>>

\* finally of a run: its own temporary file is unlinked, or stays on failure
PRemoveTempFile(r) ==
    /\ p_pc[r] = "finally"
    /\ \/ p_fs' = Unlink(p_fs, p_name[r])
       \/ UNCHANGED p_fs
    /\ p_pc' = [p_pc EXCEPT ![r] =
                    IF p_exc[r] = "none" THEN "returned" ELSE "except"]
    /\ UNCHANGED <<p_config, p_bill, p_name, p_format, p_results, p_result,
                   p_exc, u_vars, c_vars, b_vars, d_vars, k_vars, x_vars>>

\* except Exception of a run
PHandleException(r) ==
    /\ p_pc[r] = "except"
    /\ p_result' = [p_result EXCEPT ![r] = ExceptionResult(p_exc[r])]
    /\ p_pc' = [p_pc EXCEPT ![r] = "returned"]
    /\ UNCHANGED <<p_config, p_bill, p_name, p_fs, p_format, p_results,
                   p_exc, u_vars, c_vars, b_vars, d_vars, k_vars, x_vars>>

NextConcurrent ==
    \/ \E r \in Runs : PSaveTempFile(r)
    \/ \E r \in Runs : PRenderPdf(r)
    \/ \E r \in Runs : PExtractFields(r)
    \/ \E r \in Runs : PParseAndValidate(r)
    \/ \E r \in Runs : PRemoveTempFile(r)
    \/ \E r \in Runs : PHandleException(r)

SpecConcurrent == InitConcurrent /\ [][NextConcurrent]_vars

\* the dict process_bill returns for a bill when nothing else runs and
\* nothing raises
Alone(bill) ==
    Validation(
        extracted_data(bill_format(bill.size), bill.results), bill.results)

\* C19: the tables of the object stay as constructed, and a run interleaved
\* with a run on another bill returns what it returns alone: the result of
\* its own bill, or the error dict of its own exception.
C19_NoInterference ==
    /\ p_pc # <<>> => p_config = Config
    /\ \A r \in DOMAIN p_pc :
        p_pc[r] = "returned" =>
            p_result[r] = IF p_exc[r] = "none" THEN Alone(p_bill[r])
                          ELSE ExceptionResult(p_exc[r])

\* run 1 has returned its own result while run 2 is in the middle of its
\* extraction, its temporary file in place
C19_Witness ==
    /\ p_pc # <<>>
    /\ p_pc[1] = "returned"
    /\ p_pc[2] = "parse"
    /\ p_exc[1] = "none"
    /\ p_result[1].success
    /\ p_result[1] = Alone(p_bill[1])
    /\ p_name[2] \in DOMAIN p_fs

-----------------------------------------------------------------------------
(* extract_bill_period.  The text is a sequence of characters: a digit, a  *)
(* blank or a slash is written by itself, a period keyword is one symbol   *)
(* ("Bill Period" in two spellings of case), "x" is any other character.   *)

\* every part modelled in the first half of the module is idle
IdleCore ==
    /\ IdleUsage
    /\ IdleCorrector
    /\ IdleBill
    /\ IdleDetect
    /\ IdleConfidence
    /\ IdleConcurrent

core_vars == <<u_vars, c_vars, b_vars, d_vars, k_vars, p_vars>>

\* self.bill_patterns[bill_format]['period_keywords']:
\*   pracham_duean 'ประจำเดือน', pracham_dot_duean 'ประจ.เดือน'
period_keywords(fmt) ==
    IF fmt = "mea"
    THEN <<"pracham_duean", "pracham_dot_duean">>
    ELSE <<"pracham_duean", "pracham_dot_duean", "Bill Period">>

\* text[p], "" beyond the end of the text
CharAt(text, p) == IF p \in 1..Len(text) THEN text[p] ELSE ""

\* \d
IsDigit(c) == c \in {"0", "1", "2", "3", "4", "5", "6", "7", "8", "9"}

DigitValue(c) ==
    CASE c = "0" -> 0 [] c = "1" -> 1 [] c = "2" -> 2 [] c = "3" -> 3
      [] c = "4" -> 4 [] c = "5" -> 5 [] c = "6" -> 6 [] c = "7" -> 7
      [] c = "8" -> 8 [] c = "9" -> 9

\* int(match.group(n)) for the digits text[from..to]
RECURSIVE ToInt(_, _, _)
ToInt(text, from, to) ==
    IF to < from THEN 0
    ELSE 10 * ToInt(text, from, to - 1) + DigitValue(text[to])

\* re.escape(keyword) under re.IGNORECASE at position p
KeywordAt(text, p, keyword) ==
    \/ CharAt(text, p) = keyword
    \/ keyword = "Bill Period" /\ CharAt(text, p) = "bill period"

\* \s* from position p: the first position from p on that holds no blank
RECURSIVE SkipSpace(_, _)
SkipSpace(text, p) ==
    IF CharAt(text, p) = " " THEN SkipSpace(text, p + 1) ELSE p

\* the number of digits from position p on, counted up to max
RECURSIVE DigitRun(_, _, _)
DigitRun(text, p, max) ==
    IF max = 0 \/ ~IsDigit(CharAt(text, p)) THEN 0
    ELSE 1 + DigitRun(text, p + 1, max - 1)

\* the groups <<month, year>> of a match whose month is text[p..p+m-1] and
\* whose year starts at q and is ny digits long
Groups(text, p, m, q, ny) ==
    <<ToInt(text, p, p + m - 1), ToInt(text, q, q + ny - 1)>>

\* keyword\s*(\d{1,2})/(\d{2,4}) tried at position s: the groups, <<>> when
\* there is no match at s.  The month takes two digits if it can, else one.
KeywordSlashAt(text, keyword, s) ==
    LET p  == SkipSpace(text, s + 1)
        nm == DigitRun(text, p, 2)
        m  == IF nm = 2 /\ CharAt(text, p + 2) = "/" THEN 2
              ELSE IF nm >= 1 /\ CharAt(text, p + 1) = "/" THEN 1
              ELSE 0
        q  == p + m + 1
        ny == DigitRun(text, q, 4)
    IN IF KeywordAt(text, s, keyword) /\ m # 0 /\ ny >= 2
       THEN Groups(text, p, m, q, ny)
       ELSE <<>>

\* keyword\s*(\d{1,2})\s*(\d{2,4}) tried at position s: two digits of month
\* are tried first, and one digit when no year follows the two
KeywordBlankAt(text, keyword, s) ==
    LET p   == SkipSpace(text, s + 1)
        nm  == DigitRun(text, p, 2)
        q2  == SkipSpace(text, p + 2)
        q1  == SkipSpace(text, p + 1)
        ny2 == DigitRun(text, q2, 4)
        ny1 == DigitRun(text, q1, 4)
    IN IF ~KeywordAt(text, s, keyword) THEN <<>>
       ELSE IF nm = 2 /\ ny2 >= 2 THEN Groups(text, p, 2, q2, ny2)
       ELSE IF nm >= 1 /\ ny1 >= 2 THEN Groups(text, p, 1, q1, ny1)
       ELSE <<>>

\* (\d{1,2})/(\d{2,4})\s*keyword tried at position s: the year takes the most
\* digits, four at most, after which blanks and the keyword follow
SlashKeywordAt(text, keyword, s) ==
    LET nm == DigitRun(text, s, 2)
        m  == IF nm = 2 /\ CharAt(text, s + 2) = "/" THEN 2
              ELSE IF nm >= 1 /\ CharAt(text, s + 1) = "/" THEN 1
              ELSE 0
        q  == s + m + 1
        ok == {n \in 2..DigitRun(text, q, 4) :
                 KeywordAt(text, SkipSpace(text, q + n), keyword)}
    IN IF m # 0 /\ ok # {}
       THEN Groups(text, s, m, q, CHOOSE n \in ok : \A k \in ok : k <= n)
       ELSE <<>>

\* re.search(pattern, text, re.IGNORECASE): the groups of the leftmost match
Search(text, keyword, PatternAt(_, _, _)) ==
    LET hits == {s \in 1..Len(text) : PatternAt(text, keyword, s) # <<>>} IN
    IF hits = {} THEN <<>> ELSE PatternAt(text, keyword, Min(hits))

\* period_patterns, each with what re.search finds for it
period_patterns(text, keyword) ==
    << Search(text, keyword, KeywordSlashAt),
       Search(text, keyword, KeywordBlankAt),
       Search(text, keyword, SlashKeywordAt) >>

\* for keyword in patterns: for pattern in period_patterns: the matches in
\* the order the two loops visit them
RECURSIVE period_matches(_, _)
period_matches(text, keywords) ==
    IF keywords = <<>> THEN <<>>
    ELSE period_patterns(text, Head(keywords))
            \o period_matches(text, Tail(keywords))

\* Convert 2-digit year to 4-digit
ExpandYear(year) ==
    IF year < 100
    THEN IF year > 50 THEN year + 1900 ELSE year + 2000
    ELSE year

\* Convert Buddhist year to Gregorian if needed
ToGregorian(year) == IF year > 2500 THEN year - 543 ELSE year

\* PeriodInRange without the test of the year
PeriodInRange_MonthOnly(month, year) == 1 <= month /\ month <= 12

\* if 1 <= month <= 12 and 2000 <= year <= 2030
PeriodInRange(month, year) ==
    /\ 1 <= month /\ month <= 12
    /\ 2000 <= year /\ year <= 2030

\* the body of the two loops over the matches: the first match that passes
\* the range test is returned, <<>> (None) when the loops end
RECURSIVE FirstPeriod(_)
FirstPeriod(matches) ==
    IF matches = <<>> THEN <<>>
    ELSE LET g == Head(matches)
             year == ToGregorian(ExpandYear(g[2]))
         IN IF g # <<>> /\ PeriodInRange(g[1], year) THEN <<g[1], year>>
            ELSE FirstPeriod(Tail(matches))

extract_bill_period(text, fmt) ==
    FirstPeriod(period_matches(text, period_keywords(fmt)))

\* The inputs: a keyword, a month and a year in each of the three layouts,
\* and two such periods side by side.
Str1(a) == <<a>>
Str2(a, b) == <<a, b>>
Str3(a, b, c) == <<a, b, c>>
Str4(a, b, c, d) == <<a, b, c, d>>

PeriodKeywordChars ==
    {"pracham_duean", "pracham_dot_duean", "Bill Period", "bill period"}

MonthStrings == {Str1("1"), Str2("1", "1"), Str2("1", "3"), Str1("0")}

YearStrings ==
    {Str2("2", "5"), Str2("5", "0"), Str2("5", "1"), Str2("6", "8"),
     Str3("2", "5", "6"),
     Str4("2", "5", "6", "8"), Str4("2", "5", "0", "0"),
     Str4("2", "5", "0", "1"), Str4("2", "0", "3", "0"),
     Str4("2", "0", "3", "1"), Str4("2", "5", "7", "4")}

Blanks == {<<>>, Str1(" ")}

Separators == {Str1("/"), Str1(" "), <<>>}

KeywordFirst ==
    {Str1(k) \o b \o m \o s \o y :
        k \in PeriodKeywordChars, b \in Blanks, m \in MonthStrings,
        s \in Separators, y \in YearStrings}

KeywordLast ==
    {m \o Str1("/") \o y \o b \o Str1(k) :
        k \in PeriodKeywordChars, b \in Blanks, m \in MonthStrings,
        y \in YearStrings}

\* a period that is out of range next to one that may be in range
OutOfRange ==
    {Str1(k) \o Str3("1", "3", "/") \o y :
        k \in {"pracham_duean", "Bill Period"},
        y \in {Str2("2", "5"), Str4("2", "5", "6", "8")}}

TwoPeriods ==
    {a \o Str1(" ") \o b : a \in OutOfRange,
        b \in {t \in KeywordFirst \cup KeywordLast :
                 Len(t) <= 6 /\ t[1] # "bill period" /\ t[Len(t)] # "bill period"}}
      \cup {b \o Str1(" ") \o a : a \in OutOfRange,
        b \in {t \in KeywordLast : Len(t) <= 5}}

PeriodTexts == KeywordFirst \cup KeywordLast \cup TwoPeriods

InitPeriod ==
    /\ e_text \in PeriodTexts
    /\ e_fmt \in Formats
    /\ e_ret = <<>>
    /\ e_pc = "call"
    /\ IdleCore
    /\ IdleCrop
    /\ IdleRecordId
    /\ IdleRequests
    /\ IdleFallback

ExtractPeriod ==
    /\ e_pc = "call"
    /\ e_ret' = extract_bill_period(e_text, e_fmt)
    /\ e_pc' = "done"
    /\ UNCHANGED <<e_text, e_fmt, core_vars, i_vars, g_vars, r_vars, f_vars>>

NextPeriod == ExtractPeriod

SpecPeriod == InitPeriod /\ [][NextPeriod]_vars

\* the (month, year) tokens the function reads, in the order it reads them:
\* for each keyword of the format, the leftmost match of each layout
C21_Tokens ==
    LET all == period_matches(e_text, period_keywords(e_fmt)) IN
    SelectSeq(all, LAMBDA g : g # <<>>)

\* the year a token's year resolves to
C21_Year(y) ==
    LET y4 == IF y >= 100 THEN y ELSE IF y > 50 THEN 1900 + y ELSE 2000 + y
    IN IF y4 > 2500 THEN y4 - 543 ELSE y4

C21_Survives(g) ==
    /\ g[1] \in 1..12
    /\ C21_Year(g[2]) \in 2000..2030

-----------------------------------------------------------------------------
(* Strategy 2 and strategy 4 of extract_usage_amount (under SpecUsage)     *)

\* every numeric capture of a header pattern in text order: the number that
\* follows each occurrence of kw within 50 characters free of digits
RECURSIVE C22_HeaderCaptures(_, _, _)
C22_HeaderCaptures(text, kw, i) ==
    IF i > Len(text) THEN <<>>
    ELSE LET j == NextNum(text, i) IN
         IF /\ text[i].k = kw
            /\ j # 0
            /\ Start(text, j) - End(text, i) <= 50
            /\ Digits(text[j].v) <= 5
         THEN <<text[j].v>> \o C22_HeaderCaptures(text, kw, j + 1)
         ELSE C22_HeaderCaptures(text, kw, i + 1)

\* every capture of the energy pattern in text order: the third number, kept
\* here when it passes the pattern's check against the two readings
RECURSIVE C22_EnergyCaptures(_, _)
C22_EnergyCaptures(text, i) ==
    IF i > Len(text) THEN <<>>
    ELSE LET m == EnergyMatchFrom(text, i)
             rest == {k \in i..Len(text) : text[k].k = "unit"}
         IN IF m = <<>> THEN <<>>
            ELSE (IF WithinTolerance(m[3], Abs(m[1] - m[2])) THEN <<m[3]>> ELSE <<>>)
                   \o C22_EnergyCaptures(text, Min(rest) + 1)

\* the validity check of a header capture
C22_Valid(v) == 10 <= v /\ v <= 5000

\* the captures that pass the validity check, in pattern order and then in
\* text order
C22_ValidCaptures ==
    C22_EnergyCaptures(u_text, 1)
      \o SelectSeq(C22_HeaderCaptures(u_text, usage_header(u_fmt), 1), C22_Valid)
      \o SelectSeq(C22_HeaderCaptures(u_text, alt_usage_header(u_fmt), 1), C22_Valid)
      \o SelectSeq(C22_HeaderCaptures(u_text, "usage_pea", 1), C22_Valid)
      \o SelectSeq(C22_HeaderCaptures(u_text, "consumption", 1), C22_Valid)

\* C22: strategy 2 returns the first numeric capture, in pattern order and
\* then text order, that passes the validity check: a capture that fails it
\* is skipped and the later captures are tried, so a valid value after a
\* later occurrence of the keyword is found.
C22_FirstValidCapture ==
    2 \in Range(u_tried) =>
        StrategyResult(2) =
            IF C22_ValidCaptures = <<>> THEN None ELSE C22_ValidCaptures[1]

\* the numeric tokens strategy 4 reads, in text order
C23_Tokens == SortedIdx({i \in 1..Len(u_text) : IsNum(u_text[i])})

\* token k of kind kw lies within n characters of the numeric token i
C23_Near(i, k, kw, n) ==
    /\ u_text[k].k = kw
    /\ k < i => Start(u_text, i) - Start(u_text, k) <= n
    /\ k > i => End(u_text, k) - End(u_text, i) <= n

\* the rejection rules of strategy 4
C23_Rejected(i) ==
    LET v == u_text[i].v IN
    \/ v <= 31
    \/ (1900 <= v /\ v <= 2100) \/ (2400 <= v /\ v <= 2700)
    \/ v >= 1000 /\ Digits(v) >= 4
    \/ \E k \in 1..Len(u_text) : C23_Near(i, k, "soi", 10)
    \/ \E k \in 1..Len(u_text) : C23_Near(i, k, "slash", 2)

C23_Survivors ==
    SelectSeq(C23_Tokens,
              LAMBDA i : ~C23_Rejected(i) /\ 50 <= u_text[i].v /\ u_text[i].v <= 5000)

\* C23: strategy 4 returns the first numeric token in text order that
\* survives its rejection rules (at most 31, a year, meter-scale, an address
\* keyword within 10 characters, a slash within 2 characters) and lies in
\* [50,5000], and None when no token survives.
C23_FirstSurvivor ==
    (u_pc = "done" /\ 4 \in Range(u_tried)) =>
        /\ StrategyResult(4) =
             IF C23_Survivors = <<>> THEN None ELSE u_text[C23_Survivors[1]].v
        /\ u_ret = StrategyResult(4)
        /\ (u_by = 4) <=> (C23_Survivors # <<>>)

\* C23 witness: strategy 4 returned a token after passing over an earlier
\* one that is in [50,5000] but stands next to an address keyword.
C23_Witness ==
    /\ u_pc = "done"
    /\ u_by = 4
    /\ \E i \in 1..Len(u_text) :
         /\ IsNum(u_text[i])
         /\ 50 <= u_text[i].v /\ u_text[i].v <= 999
         /\ \E k \in 1..Len(u_text) : C23_Near(i, k, "soi", 10)
         /\ i < C23_Survivors[1]

-----------------------------------------------------------------------------
(* preprocess_image: the crop of the decoded image.  A region is the rows  *)
(* [top, bottom) and the columns [left, right) of the image.  The floats   *)
(* of the code are exact here: height * 0.45 and the like are taken as     *)
(* fractions of 100, height / width as the fraction it is.                 *)

\* int(height * pct / 100)
Percent(height, pct) == (height * pct) \div 100

\* aspect_ratio < 0.5
PreCropped(width, height) == 2 * height < width

\* aspect_ratio > 1.3
TallBill(width, height) == 10 * height > 13 * width

\* crop_top of the tall branch without the skip of the header
crop_top_None(height) == 0

\* crop_top = int(height * 0.10)
crop_top(height) == Percent(height, 10)

\* crop_bottom = int(height * 0.55)
crop_bottom(height) == Percent(height, 55)

\* processed_image: the image itself, image[crop_top:crop_bottom, :] or
\* image[0:int(height * 0.45), :]
processed_image(width, height) ==
    IF PreCropped(width, height)
    THEN [top |-> 0, bottom |-> height, left |-> 0, right |-> width]
    ELSE IF TallBill(width, height)
    THEN [top |-> crop_top(height), bottom |-> crop_bottom(height),
          left |-> 0, right |-> width]
    ELSE [top |-> 0, bottom |-> Percent(height, 45), left |-> 0, right |-> width]

\* the largest side of the images
MaxSide == 40

ImageSizes == (1..MaxSide) \X (1..MaxSide)

InitCrop ==
    /\ i_size \in ImageSizes
    /\ i_region = <<>>
    /\ i_pc = "call"
    /\ IdleCore
    /\ IdlePeriod
    /\ IdleRecordId
    /\ IdleRequests
    /\ IdleFallback

\* The image is cropped, resized and filtered.  A region without rows cannot
\* be resized: the library call raises or returns, as the build decides.
PreprocessImage ==
    /\ i_pc = "call"
    /\ i_region' = processed_image(i_size[1], i_size[2])
    /\ IF i_region'.top < i_region'.bottom
       THEN i_pc' = "done"
       ELSE i_pc' \in {"done", "raised"}
    /\ UNCHANGED <<i_size, core_vars, e_vars, g_vars, r_vars, f_vars>>

NextCrop == PreprocessImage

SpecCrop == InitCrop /\ [][NextCrop]_vars

\* n is floor(pct/100 * height)
C24_Floor(n, pct, height) ==
    100 * n <= pct * height /\ pct * height < 100 * (n + 1)

\* C24: the crop is decided by r = height/width alone: r < 0.5 keeps every
\* row; 0.5 <= r <= 1.3 keeps rows [0, floor(0.45*height)); r > 1.3 keeps
\* rows [floor(0.10*height), floor(0.55*height)); every column is kept in
\* each case.
C24_CropByAspectRatio ==
    i_pc \in {"done", "raised"} =>
        LET w == i_size[1]
            h == i_size[2]
        IN /\ i_region.left = 0 /\ i_region.right = w
           /\ 2 * h < w => i_region.top = 0 /\ i_region.bottom = h
           /\ (2 * h >= w /\ 10 * h <= 13 * w) =>
                i_region.top = 0 /\ C24_Floor(i_region.bottom, 45, h)
           /\ 10 * h > 13 * w =>
                /\ C24_Floor(i_region.top, 10, h)
                /\ C24_Floor(i_region.bottom, 55, h)

\* C24 witness: a tall image was cropped to a band that starts below its
\* first row and ends above its last.
C24_Witness ==
    /\ i_pc = "done"
    /\ 10 * i_size[2] > 13 * i_size[1]
    /\ 0 < i_region.top
    /\ i_region.top < i_region.bottom
    /\ i_region.bottom < i_size[2]

-----------------------------------------------------------------------------
(* generate_record_id called by concurrent requests.  The counter document *)
(* {'_id': 'record_id', 'seq': n} is held as n, 0 when it does not exist.  *)

\* str(n) as its decimal digits
RECURSIVE Str(_)
Str(n) == IF n < 10 THEN <<n>> ELSE Append(Str(n \div 10), n % 10)

\* s.zfill(width)
RECURSIVE zfill(_, _)
zfill(s, width) == IF Len(s) >= width THEN s ELSE zfill(<<0>> \o s, width)

\* f"REC{str(counter['seq']).zfill(3)}"
RecordId(seq) == <<"REC">> \o zfill(Str(seq), 3)

\* the requests that call generate_record_id, and the calls made in all
Callers == {1, 2, 3}

MaxCalls == 4

\* the counter as earlier runs of the application may have left it
InitialSeqs == {0, 8, 98, 998}

InitRecordId ==
    /\ g_seq \in InitialSeqs
    /\ g_pc = [c \in Callers |-> "idle"]
    /\ g_counter = [c \in Callers |-> 0]
    /\ g_ids = <<>>
    /\ IdleCore
    /\ IdlePeriod
    /\ IdleCrop
    /\ IdleRequests
    /\ IdleFallback

\* a request reaches its call of generate_record_id
StartCall(c) ==
    /\ g_pc[c] = "idle"
    /\ Len(g_ids) + Cardinality({d \in Callers : g_pc[d] # "idle"}) < MaxCalls
    /\ g_pc' = [g_pc EXCEPT ![c] = "call"]
    /\ UNCHANGED <<g_seq, g_counter, g_ids, core_vars, e_vars, i_vars, r_vars,
                   f_vars>>

\* FindOneAndUpdate that reads the counter and stores nothing
FindOneAndUpdate_ReadOnly(c) ==
    /\ g_pc[c] = "call"
    /\ g_counter' = [g_counter EXCEPT ![c] = g_seq + 1]
    /\ g_pc' = [g_pc EXCEPT ![c] = "format"]
    /\ UNCHANGED <<g_seq, g_ids, core_vars, e_vars, i_vars, r_vars, f_vars>>

\* db.counters.find_one_and_update({'_id': 'record_id'}, {'$inc': {'seq': 1}},
\* upsert=True, return_document=True): one step of the database, which
\* creates the document with seq 1 when it is absent and hands back the
\* document as it is after the increment
FindOneAndUpdate(c) ==
    /\ g_pc[c] = "call"
    /\ g_seq' = g_seq + 1
    /\ g_counter' = [g_counter EXCEPT ![c] = g_seq']
    /\ g_pc' = [g_pc EXCEPT ![c] = "format"]
    /\ UNCHANGED <<g_ids, core_vars, e_vars, i_vars, r_vars, f_vars>>

\* return f"REC{...}"
ReturnId(c) ==
    /\ g_pc[c] = "format"
    /\ g_ids' = Append(g_ids, RecordId(g_counter[c]))
    /\ g_pc' = [g_pc EXCEPT ![c] = "idle"]
    /\ UNCHANGED <<g_seq, g_counter, core_vars, e_vars, i_vars, r_vars, f_vars>>

NextRecordId ==
    \E c \in Callers :
        \/ StartCall(c)
        \/ FindOneAndUpdate(c)
        \/ ReturnId(c)

SpecRecordId == InitRecordId /\ [][NextRecordId]_vars

\* C25: no two calls of generate_record_id return the same record ID,
\* however the calls of concurrent requests interleave.
C25_DistinctIds ==
    \A m, n \in 1..Len(g_ids) : m # n => g_ids[m] # g_ids[n]

\* C25 witness: two calls overlapped and returned in the opposite order of
\* their increments, one ID being padded and the other four digits long.
C25_Witness ==
    /\ Len(g_ids) >= 2
    /\ g_ids[1] = <<"REC", 1, 0, 0, 0>>
    /\ g_ids[2] = <<"REC", 9, 9, 9>>

-----------------------------------------------------------------------------
(* The edit request routes create_edit_request, approve_edit_request and   *)
(* reject_edit_request, served by concurrent handler threads.  Each call   *)
(* of a collection method is one step; the steps of different threads      *)
(* interleave.  An emission record is "orig" as inserted, "edited" after   *)
(* an approved edit and "none" once deleted.  An edit request is the       *)
(* document [request_id, record_id, request_type, status]; request_id      *)
(* f"REQ{n:03}" is held as n.  A create call carries every required field  *)
(* and the caller owns the record; an approve or reject call carries a     *)
(* body that request.get_json() reads ("json") or raises on ("unreadable").*)

Threads == {1, 2}

\* the calls served in all
MaxServed == 3

RecordIds == {"R1", "R2"}

RequestIds == 1..MaxServed

CreateCalls ==
    {[op |-> "create", record_id |-> rec, request_type |-> ty, changes |-> ch,
      request_id |-> 0, body |-> "json"] :
        rec \in RecordIds, ty \in {"edit", "delete"}, ch \in BOOLEAN}

AdminCalls ==
    {[op |-> o, record_id |-> "", request_type |-> "", changes |-> FALSE,
      request_id |-> id, body |-> b] :
        o \in {"approve", "reject"}, id \in RequestIds,
        b \in {"json", "unreadable"}}

\* the local variables of a handler: the index of the document that
\* find_one returned (0 before, and for no document) and count
NoLocals == [found |-> 0, count |-> 0]

NoCall ==
    [op |-> "none", record_id |-> "", request_type |-> "", changes |-> FALSE,
     request_id |-> 0, body |-> "json"]

InitRequests ==
    /\ r_records = [rec \in RecordIds |-> "orig"]
    /\ r_requests = <<>>
    /\ r_pc = [t \in Threads |-> "idle"]
    /\ r_call = [t \in Threads |-> NoCall]
    /\ r_local = [t \in Threads |-> NoLocals]
    /\ r_resp = <<>>
    /\ IdleCore
    /\ IdlePeriod
    /\ IdleCrop
    /\ IdleRecordId
    /\ IdleFallback

\* return jsonify(...): the handler of thread t ends with the message msg
Return(t, msg) ==
    /\ r_resp' = Append(r_resp, [op |-> r_call[t].op,
                                 request_id |-> r_call[t].request_id,
                                 message |-> msg])
    /\ r_pc' = [r_pc EXCEPT ![t] = "idle"]
    /\ r_call' = [r_call EXCEPT ![t] = NoCall]
    /\ r_local' = [r_local EXCEPT ![t] = NoLocals]

\* edit_requests_collection.find_one({'request_id': request_id}): the index
\* of the first document with that request_id, 0 when there is none
FindRequest(request_id) ==
    LET hits == {n \in 1..Len(r_requests) : r_requests[n].request_id = request_id}
    IN IF hits = {} THEN 0 ELSE Min(hits)

\* update_one({'request_id': request_id}, {'$set': {'status': status, ...}})
UpdateStatus(request_id, status) ==
    LET n == FindRequest(request_id) IN
    IF n = 0 THEN r_requests
    ELSE [r_requests EXCEPT ![n].status = status]

\* a thread takes a request from a client
Serve(t) ==
    /\ r_pc[t] = "idle"
    /\ Len(r_resp) + Cardinality({u \in Threads : r_pc[u] # "idle"}) < MaxServed
    /\ \E call \in CreateCalls \cup AdminCalls :
         /\ r_call' = [r_call EXCEPT ![t] = call]
         /\ r_pc' = [r_pc EXCEPT ![t] =
                CASE call.op = "create" -> "create_find_record"
                  [] call.op = "approve" -> "approve_find_request"
                  [] call.op = "reject" -> "reject_find_request"]
    /\ UNCHANGED <<r_records, r_requests, r_local, r_resp, core_vars, e_vars,
                   i_vars, g_vars, f_vars>>

\* create_edit_request: emission_records_collection.find_one
CreateFindRecord(t) ==
    /\ r_pc[t] = "create_find_record"
    /\ IF r_records[r_call[t].record_id] = "none"
       THEN Return(t, "Record not found or access denied")
       ELSE /\ r_pc' = [r_pc EXCEPT ![t] = "create_find_pending"]
            /\ UNCHANGED <<r_call, r_local, r_resp>>
    /\ UNCHANGED <<r_records, r_requests, core_vars, e_vars, i_vars, g_vars,
                   f_vars>>

\* create_edit_request: find_one({'record_id': ..., 'status': 'pending'})
CreateFindPending(t) ==
    /\ r_pc[t] = "create_find_pending"
    /\ IF \E n \in 1..Len(r_requests) :
            /\ r_requests[n].record_id = r_call[t].record_id
            /\ r_requests[n].status = "pending"
       THEN Return(t, "There is already a pending request for this record")
       ELSE /\ r_pc' = [r_pc EXCEPT ![t] = "create_count"]
            /\ UNCHANGED <<r_call, r_local, r_resp>>
    /\ UNCHANGED <<r_records, r_requests, core_vars, e_vars, i_vars, g_vars,
                   f_vars>>

\* generate_request_id: count_documents({}), then the test of
\* proposed_changes of an edit request
CreateCount(t) ==
    /\ r_pc[t] = "create_count"
    /\ IF r_call[t].request_type = "edit" /\ ~r_call[t].changes
       THEN Return(t, "Proposed changes are required for edit requests")
       ELSE /\ r_local' = [r_local EXCEPT ![t].count = Len(r_requests)]
            /\ r_pc' = [r_pc EXCEPT ![t] = "create_insert"]
            /\ UNCHANGED <<r_call, r_resp>>
    /\ UNCHANGED <<r_records, r_requests, core_vars, e_vars, i_vars, g_vars,
                   f_vars>>

\* CreateInsert with a request_id that no stored request carries
CreateInsert_FreshId(t) ==
    /\ r_pc[t] = "create_insert"
    /\ r_requests' = Append(r_requests,
            [request_id |-> Len(r_requests) + 1,
             record_id |-> r_call[t].record_id,
             request_type |-> r_call[t].request_type,
             status |-> "pending"])
    /\ Return(t, "request submitted successfully")
    /\ UNCHANGED <<r_records, core_vars, e_vars, i_vars, g_vars, f_vars>>

\* create_edit_request: insert_one(edit_request), request_id being count + 1
CreateInsert(t) ==
    /\ r_pc[t] = "create_insert"
    /\ r_requests' = Append(r_requests,
            [request_id |-> r_local[t].count + 1,
             record_id |-> r_call[t].record_id,
             request_type |-> r_call[t].request_type,
             status |-> "pending"])
    /\ Return(t, "request submitted successfully")
    /\ UNCHANGED <<r_records, core_vars, e_vars, i_vars, g_vars, f_vars>>

\* approve_edit_request: find_one by request_id and the test of its status
ApproveFindRequest(t) ==
    /\ r_pc[t] = "approve_find_request"
    /\ LET n == FindRequest(r_call[t].request_id) IN
       IF n = 0 THEN Return(t, "Request not found")
       ELSE IF r_requests[n].status # "pending"
       THEN Return(t, "Request has already been processed")
       ELSE /\ r_local' = [r_local EXCEPT ![t].found = n]
            /\ r_pc' = [r_pc EXCEPT ![t] = "approve_find_record"]
            /\ UNCHANGED <<r_call, r_resp>>
    /\ UNCHANGED <<r_records, r_requests, core_vars, e_vars, i_vars, g_vars,
                   f_vars>>

\* reject_edit_request: request.get_json(), which the except clause answers
\* when it raises, then find_one by request_id and the test of its status
RejectFindRequest(t) ==
    /\ r_pc[t] = "reject_find_request"
    /\ LET n == FindRequest(r_call[t].request_id) IN
       IF r_call[t].body = "unreadable" THEN Return(t, "Error")
       ELSE IF n = 0 THEN Return(t, "Request not found")
       ELSE IF r_requests[n].status # "pending"
       THEN Return(t, "Request has already been processed")
       ELSE /\ r_local' = [r_local EXCEPT ![t].found = n]
            /\ r_pc' = [r_pc EXCEPT ![t] = "reject_update"]
            /\ UNCHANGED <<r_call, r_resp>>
    /\ UNCHANGED <<r_records, r_requests, core_vars, e_vars, i_vars, g_vars,
                   f_vars>>

\* approve_edit_request: emission_records_collection.find_one
ApproveFindRecord(t) ==
    /\ r_pc[t] = "approve_find_record"
    /\ IF r_records[r_requests[r_local[t].found].record_id] = "none"
       THEN Return(t, "Original record not found")
       ELSE /\ r_pc' = [r_pc EXCEPT ![t] = "approve_apply"]
            /\ UNCHANGED <<r_call, r_local, r_resp>>
    /\ UNCHANGED <<r_records, r_requests, core_vars, e_vars, i_vars, g_vars,
                   f_vars>>

\* approve_edit_request: delete_one of the record of a delete request,
\* update_one of the record of an edit request; neither touches a record
\* that is gone
ApproveApply(t) ==
    /\ r_pc[t] = "approve_apply"
    /\ LET req == r_requests[r_local[t].found]
           rec == req.record_id
       IN r_records' =
            IF r_records[rec] = "none" THEN r_records
            ELSE IF req.request_type = "delete"
                 THEN [r_records EXCEPT ![rec] = "none"]
                 ELSE [r_records EXCEPT ![rec] = "edited"]
    /\ r_pc' = [r_pc EXCEPT ![t] = "approve_update"]
    /\ UNCHANGED <<r_requests, r_call, r_local, r_resp, core_vars, e_vars,
                   i_vars, g_vars, f_vars>>

\* approve_edit_request: the status update.  request.get_json() is read
\* while the update is put together; when it raises, the handler's except
\* clause answers and the status is left as it was.
ApproveUpdate(t) ==
    /\ r_pc[t] = "approve_update"
    /\ IF r_call[t].body = "unreadable"
       THEN /\ Return(t, "Error")
            /\ UNCHANGED r_requests
       ELSE /\ r_requests' = UpdateStatus(r_call[t].request_id, "approved")
            /\ Return(t, "approved")
    /\ UNCHANGED <<r_records, core_vars, e_vars, i_vars, g_vars, f_vars>>

\* reject_edit_request: the status update
RejectUpdate(t) ==
    /\ r_pc[t] = "reject_update"
    /\ r_requests' = UpdateStatus(r_call[t].request_id, "rejected")
    /\ Return(t, "Request rejected successfully")
    /\ UNCHANGED <<r_records, core_vars, e_vars, i_vars, g_vars, f_vars>>

NextRequests ==
    \E t \in Threads :
        \/ Serve(t)
        \/ CreateFindRecord(t)
        \/ CreateFindPending(t)
        \/ CreateCount(t)
        \/ CreateInsert(t)
        \/ ApproveFindRequest(t)
        \/ ApproveFindRecord(t)
        \/ ApproveApply(t)
        \/ ApproveUpdate(t)
        \/ RejectFindRequest(t)
        \/ RejectUpdate(t)

SpecRequests == InitRequests /\ [][NextRequests]_vars

-----------------------------------------------------------------------------
(* Properties of the edit request routes (under SpecRequests)              *)

\* the answers with which an approve or a reject call reports success
C26_Success == {"approved", "Request rejected successfully"}

\* the stored requests carry different request_ids, so that a request_id
\* names one request
C26_IdsNameOneRequest ==
    \A m, n \in 1..Len(r_requests) :
        m # n => r_requests[m].request_id # r_requests[n].request_id

\* the status of every stored request either stays or moves from 'pending'
\* to 'approved' or 'rejected'
C26_StatusStep ==
    \A n \in 1..Len(r_requests) :
        r_requests'[n].status # r_requests[n].status =>
            /\ r_requests[n].status = "pending"
            /\ r_requests'[n].status \in {"approved", "rejected"}

\* among the approve and reject calls on one request at most one succeeds
C26_OneSuccess ==
    C26_IdsNameOneRequest =>
        \A id \in RequestIds :
            Cardinality({n \in 1..Len(r_resp) :
                           /\ r_resp[n].op \in {"approve", "reject"}
                           /\ r_resp[n].request_id = id
                           /\ r_resp[n].message \in C26_Success}) <= 1

\* C26: an edit request is processed at most once: its status moves only
\* from 'pending' to 'approved' or to 'rejected' and never changes after,
\* and among all approve and reject calls on the same request, in any
\* interleaving, at most one returns success.
C26_ProcessedAtMostOnce == [][C26_StatusStep]_vars /\ []C26_OneSuccess

\* C27: in every reachable state an emission record has at most one edit
\* request with status 'pending'.
C27_OnePendingPerRecord ==
    \A rec \in RecordIds :
        Cardinality({n \in 1..Len(r_requests) :
                       /\ r_requests[n].record_id = rec
                       /\ r_requests[n].status = "pending"}) <= 1

\* C28: no two stored edit requests carry the same request_id, so approve
\* and reject by request_id address exactly one request.
C28_UniqueRequestIds ==
    \A m, n \in 1..Len(r_requests) :
        r_requests[m].request_id = r_requests[n].request_id => m = n

\* a step in which approval fails for want of the target record changes no
\* record and no request
C29_FailedApprovalStep ==
    (/\ Len(r_resp') = Len(r_resp) + 1
     /\ r_resp'[Len(r_resp')].message = "Original record not found")
        => UNCHANGED <<r_records, r_requests>>

\* C29: approval of a delete request is consistent with the record store:
\* the record of an approved delete request is gone; once the handlers have
\* returned, a record that approval removed has a delete request that is no
\* longer 'pending'; and an approval that fails because the record is
\* missing changes no record and no request.
C29_DeleteConsistent ==
    /\ [](\A n \in 1..Len(r_requests) :
            (r_requests[n].request_type = "delete"
                /\ r_requests[n].status = "approved")
              => r_records[r_requests[n].record_id] = "none")
    /\ []((\A t \in Threads : r_pc[t] = "idle") =>
            \A rec \in RecordIds :
                r_records[rec] = "none" =>
                    \E n \in 1..Len(r_requests) :
                        /\ r_requests[n].record_id = rec
                        /\ r_requests[n].request_type = "delete"
                        /\ r_requests[n].status # "pending")
    /\ [][C29_FailedApprovalStep]_vars

-----------------------------------------------------------------------------
(* fallback_number_extraction.  The text is a sequence of characters: a    *)
(* digit, a comma, a full stop or a blank is written by itself; "nuai" is  *)
(* the word 'หน่วย', "kWh" the word 'kWh', "baht" 'บาท', "an" 'อ่าน', and    *)
(* "pad" is a run of 50 characters without a digit or a keyword.  Values   *)
(* are held in hundredths.                                                 *)

\* the length of a character or word of the text as a Python string
WordLen(c) ==
    CASE c = "nuai" -> 5
      [] c = "kWh" -> 3
      [] c = "baht" -> 3
      [] c = "an" -> 4
      [] c = "pad" -> 50
      [] OTHER -> 1

\* the offset of position p in the string (match.start() for a match at p)
RECURSIVE Offset(_, _)
Offset(text, p) ==
    IF p <= 1 THEN 0 ELSE Offset(text, p - 1) + WordLen(text[p - 1])

\* \d+ from position p: the position of the last digit of the run
RECURSIVE DigitsEnd(_, _)
DigitsEnd(text, p) ==
    IF IsDigit(CharAt(text, p + 1)) THEN DigitsEnd(text, p + 1) ELSE p

\* (?:,\d{3})* after position e: the position of the last digit taken
RECURSIVE GroupsEnd(_, _)
GroupsEnd(text, e) ==
    IF /\ CharAt(text, e + 1) = ","
       /\ IsDigit(CharAt(text, e + 2))
       /\ IsDigit(CharAt(text, e + 3))
       /\ IsDigit(CharAt(text, e + 4))
    THEN GroupsEnd(text, e + 4)
    ELSE e

\* (?:\.\d{2})? after position e
FractionEnd(text, e) ==
    IF /\ CharAt(text, e + 1) = "."
       /\ IsDigit(CharAt(text, e + 2))
       /\ IsDigit(CharAt(text, e + 3))
    THEN e + 3
    ELSE e

\* the whole number of text[from..to] with its commas removed
RECURSIVE WholePart(_, _, _)
WholePart(text, from, to) ==
    IF to < from THEN 0
    ELSE IF text[to] = "," THEN WholePart(text, from, to - 1)
    ELSE 10 * WholePart(text, from, to - 1) + DigitValue(text[to])

\* float(match.group(1).replace(',', '')) for the match text[p..e], in
\* hundredths
NumberValue(text, p, e) ==
    IF e - p >= 3 /\ text[e - 2] = "."
    THEN 100 * WholePart(text, p, e - 3) + ToInt(text, e - 1, e)
    ELSE 100 * WholePart(text, p, e)

\* for match in re.finditer(number_pattern, text): the list numbers, each
\* entry with its value and the offsets of its match
RECURSIVE numbers(_, _)
numbers(text, p) ==
    IF p > Len(text) THEN <<>>
    ELSE IF IsDigit(text[p])
    THEN LET e == FractionEnd(text, GroupsEnd(text, DigitsEnd(text, p))) IN
         <<[value |-> NumberValue(text, p, e),
            start |-> Offset(text, p),
            end |-> Offset(text, e + 1)]>> \o numbers(text, e + 1)
    ELSE numbers(text, p + 1)

\* any(keyword in context for keyword in [...]) for the words of the text
\* that hold a keyword of the list once lowered, context being
\* text[max(0, start - 50):min(len(text), end + 50)].lower()
InWindow(text, num, words) ==
    \E k \in 1..Len(text) :
        /\ text[k] \in words
        /\ Offset(text, k) >= Max2(0, num.start - 50)
        /\ Offset(text, k + 1) <= Min2(Offset(text, Len(text) + 1), num.end + 50)

\* ['หน่วย', 'kwh', 'ใช้', 'จำนวน', 'unit']
usage_words == {"nuai", "kWh"}

\* ['บาท', 'amount', 'รวม', 'ชำระ', 'เงิน']
amount_words == {"baht"}

\* ['อ่าน', 'reading', 'meter', 'เลข']
meter_words == {"an"}

\* IsUsageCandidate without the test of the value
IsUsageCandidate_AnyValue(text, num) == InWindow(text, num, usage_words)

\* 50 <= value <= 5000 and any(keyword in context ...)
IsUsageCandidate(text, num) ==
    /\ 5000 <= num.value /\ num.value <= 500000
    /\ InWindow(text, num, usage_words)

\* 500 <= value <= 50000 and any(keyword in context ...)
IsAmountCandidate(text, num) ==
    /\ 50000 <= num.value /\ num.value <= 5000000
    /\ InWindow(text, num, amount_words)

\* 1000 <= value <= 99999 and any(keyword in context ...)
IsMeterReading(text, num) ==
    /\ 100000 <= num.value /\ num.value <= 9999900
    /\ InWindow(text, num, meter_words)

\* for num_data in numbers: the if / elif / elif / else chain
RECURSIVE categorized(_, _, _)
categorized(text, nums, acc) ==
    IF nums = <<>> THEN acc
    ELSE LET num == Head(nums)
             v == num.value
         IN categorized(text, Tail(nums),
              IF IsUsageCandidate(text, num)
              THEN [acc EXCEPT !.usage_candidates = Append(@, v)]
              ELSE IF IsAmountCandidate(text, num)
              THEN [acc EXCEPT !.amount_candidates = Append(@, v)]
              ELSE IF IsMeterReading(text, num)
              THEN [acc EXCEPT !.meter_readings = Append(@, v)]
              ELSE [acc EXCEPT !.other_numbers = Append(@, v)])

fallback_number_extraction(text) ==
    categorized(text, numbers(text, 1),
                [usage_candidates |-> <<>>, amount_candidates |-> <<>>,
                 meter_readings |-> <<>>, other_numbers |-> <<>>])

\* The inputs: up to MaxItems numbers, each written after some words.
MaxItems == 2

NumberStrings ==
    {Str2("2", "5"), Str3("5", "0", "0"), Str4("5", "0", "0", "0"),
     Str1("5") \o Str4(",", "0", "0", "0"),
     Str2("5", "0") \o Str3(".", "5", "0"),
     Str3("5", "0", "0") \o Str2(".", "5"),
     Str4("5", "0", "0", "0") \o Str1("0")}

WordsBefore ==
    {<<>>, Str1("nuai"), Str1("kWh"), Str1("baht"), Str1("an"),
     Str2("baht", "an"), Str2("nuai", "pad")}

Items == {w \o n : w \in WordsBefore, n \in NumberStrings}

RECURSIVE ItemTexts(_)
ItemTexts(n) ==
    IF n = 0 THEN {<<>>}
    ELSE ItemTexts(n - 1)
           \cup {t \o (IF t = <<>> THEN <<>> ELSE Str1(" ")) \o i :
                    t \in ItemTexts(n - 1), i \in Items}

FallbackTexts == ItemTexts(MaxItems)

InitFallback ==
    /\ f_text \in FallbackTexts
    /\ f_ret = <<>>
    /\ f_pc = "call"
    /\ IdleCore
    /\ IdlePeriod
    /\ IdleCrop
    /\ IdleRecordId
    /\ IdleRequests

ExtractNumbers ==
    /\ f_pc = "call"
    /\ f_ret' = fallback_number_extraction(f_text)
    /\ f_pc' = "done"
    /\ UNCHANGED <<f_text, core_vars, e_vars, i_vars, g_vars, r_vars>>

NextFallback == ExtractNumbers

SpecFallback == InitFallback /\ [][NextFallback]_vars

\* how often v occurs in the sequence s
C30_Count(s, v) == Cardinality({n \in 1..Len(s) : s[n] = v})

\* the values of the numbers found in the text, one per numeric token
C30_Found ==
    LET nums == numbers(f_text, 1) IN [n \in 1..Len(nums) |-> nums[n].value]

====
